---- MODULE Spec2Model ----
(***************************************************************************)
(* Scoring engine of the course scoreboard (src/scoreboard): TaskScore,   *)
(* ThreadTask, ProcessTask, Student and the thread-track part of           *)
(* Scoreboard.                                                             *)
(*                                                                         *)
(* Number representation.  Python floats are modelled by exact integers:   *)
(*   - every point value (solution, performance, report, penalties,       *)
(*     totals) is in thousandths of a point;                               *)
(*   - copy_coeff, the percents and the thresholds of the efficiency      *)
(*     scale are in thousandths;                                           *)
(*   - benchmark times are whole seconds, instants are seconds.           *)
(* The values drawn below are dyadic (multiples of 1/8, powers of two), so *)
(* the binary floating-point operations of the source are exact on them    *)
(* and round() resolves ties to even, as modelled by RoundHalfEven.        *)
(***************************************************************************)
EXTENDS Integers, Sequences, FiniteSets, TLC

VARIABLES
    thread_task,         \* the ThreadTask being scored
    thread_folder,       \* facts found on disk for the student's folder
    thread_submissions,  \* Student.thread_submissions.get(task.name)
    task_scores,         \* Student.task_scores.get(task.name)
    thread_call,         \* history: the submission the last calculate_score got
    process_task,        \* the ProcessTask being scored
    process_folder,      \* facts found on disk for the process folder
    process_submissions, \* Student.process_submissions.get(task.name)
    process_scores,      \* Student.process_scores.get(task.name)
    process_call,        \* history: the submission the last calculate_score got
    board,               \* Scoreboard configuration (thread track)
    status_map,          \* discovered folders of the thread track, with facts
    thread_students,     \* Scoreboard.thread_students
    rows,                \* result of Scoreboard.build_threads_rows
    process_tasks,       \* Scoreboard.process_tasks
    processes_dirs,      \* discovered folders of the process track, in the
                         \* order the directory is enumerated
    process_students,    \* Scoreboard.process_students
    run,                 \* outcome of Scoreboard.from_files
    process_rows,        \* result of Scoreboard.build_process_rows
    hash_raises,         \* the salts for which the variant hash raises
    raw_scale,           \* points_info.get("efficiency_scale"), as read
    board_scale,         \* Scoreboard.efficiency_scale
    perf_budget,         \* the performance budget of the task scored
    points_of,           \* history: efficiencies asked, points returned
    deadline_shifts,     \* Scoreboard.deadline_shifts, the task names of
                         \* points_info, and whether the year is a leap year
    deadlines,           \* the deadlines computed for the tasks of a track
    last_penalty,        \* history: the penalty asked and returned
    legacy_rows          \* result of builder.build_threads_rows

vars == <<thread_task, thread_folder, thread_submissions, task_scores,
          thread_call, process_task, process_folder, process_submissions,
          process_scores, process_call, board, status_map, thread_students,
          rows, process_tasks, processes_dirs, process_students, run,
          process_rows, hash_raises, raw_scale, board_scale,
          perf_budget, points_of, deadline_shifts, deadlines,
          last_penalty, legacy_rows>>

threadVars == <<thread_task, thread_folder, thread_submissions, task_scores,
                thread_call>>
processVars == <<process_task, process_folder, process_submissions,
                 process_scores, process_call>>
boardVars == <<board, status_map, thread_students, rows>>
assemblyVars == <<process_tasks, processes_dirs, process_students, run,
                  process_rows, hash_raises>>
scaleVars == <<raw_scale, board_scale, perf_budget, points_of>>
deadlineVars == <<deadline_shifts, deadlines, last_penalty>>
legacyVars == <<legacy_rows>>
configVars == <<scaleVars, deadlineVars, legacyVars>>

-----------------------------------------------------------------------------
(* Bounds of the model *)

\* commits are drawn up to this many whole days after the due instant
MaxDaysLate == 3

-----------------------------------------------------------------------------
(* Values *)

None == "None"
Statuses == {"done", "disabled", None, "unknown"}

Points(p) == p * 1000

SecondsPerDay == 24 * 60 * 60
SecondsPerHour == 60 * 60

\* a value that may be a number of seconds, None, or a string
TimeVal(k, v) == [kind |-> k, val |-> v]
NoTime == TimeVal("None", 0)
Seconds(v) == TimeVal("num", v)
\* "", "?", "N/A": the sentinel strings; "text": any other non-numeric string
BadTimes == {NoTime, TimeVal("", 0), TimeVal("?", 0), TimeVal("N/A", 0),
             TimeVal("text", 0), Seconds(0), Seconds(-1)}

\* a display string: the placeholder "—" or a number shown with 2 decimals
Placeholder == [shown |-> FALSE, centi |-> 0]
Shown(c) == [shown |-> TRUE, centi |-> c]

\* Optional[datetime]
NoInstant == [known |-> FALSE, at |-> 0]
Instant(t) == [known |-> TRUE, at |-> t]

Max(a, b) == IF a >= b THEN a ELSE b

\* an exception that leaves a function, in the place of the value it returns
Raised == [raised |-> TRUE]
IsRaised(v) == "raised" \in DOMAIN v

\* n / d rounded to the nearest integer, ties to even (d > 0)
RoundHalfEven(n, d) ==
    LET q == n \div d
        r == n % d
    IN  IF 2 * r < d THEN q
        ELSE IF 2 * r > d THEN q + 1
        ELSE IF q % 2 = 0 THEN q ELSE q + 1

\* round(x, 2) of a value in thousandths
Round2(x) == 10 * RoundHalfEven(x, 10)

\* f"{x:.2f}" of a value in thousandths, as hundredths
Format2(x) == Shown(RoundHalfEven(x, 10))

-----------------------------------------------------------------------------
(* tasks.py: TaskScore *)

TaskScore(sol, sol_class, perf, perf_display, acc, eff, dl, cp, cp_class, rep, rep_class) ==
    [solution_points |-> sol, solution_class |-> sol_class,
     performance_points |-> perf, performance_display |-> perf_display,
     acceleration |-> acc, efficiency |-> eff,
     deadline_penalty |-> dl, copy_penalty |-> cp, copy_class |-> cp_class,
     report_points |-> rep, report_class |-> rep_class]

\* mutant: the default score carries a point
EmptyTaskScore_OnePoint ==
    TaskScore(1000, "", 0, Placeholder, Placeholder, Placeholder, 0, 0, "",
              0, "")

\* TaskScore(): every field at its default
EmptyTaskScore ==
    TaskScore(0, "", 0, Placeholder, Placeholder, Placeholder, 0, 0, "", 0, "")

\* mutant: the deadline penalty is added to the total
TaskScore_total_WithDeadline(s) ==
    Round2(s.solution_points + s.performance_points + s.report_points
           + s.copy_penalty + s.deadline_penalty)

TaskScore_total(s) ==
    Round2(s.solution_points + s.performance_points + s.report_points
           + s.copy_penalty)

-----------------------------------------------------------------------------
(* tasks.py: Task helpers *)

\* mutant: a started day counts as a whole day
Task_deadline_penalty_Ceil(task, path, status) ==
    IF status # "done" \/ ~task.deadline.due.known \/ ~path.known THEN 0
    ELSE IF ~path.commit.known THEN 0
    ELSE LET late == path.commit.at - task.deadline.due.at
         IN  IF late > 0
             THEN Points(-((late + SecondsPerDay - 1) \div SecondsPerDay))
             ELSE 0

\* path: [known, commit]: known = FALSE models path None; commit is what
\* _git_commit_time returns for the path (NoInstant: no commit time)
Task_deadline_penalty(task, path, status) ==
    IF status # "done" \/ ~task.deadline.due.known \/ ~path.known THEN 0
    ELSE IF ~path.commit.known THEN 0
    ELSE LET days_late == (path.commit.at - task.deadline.due.at)
                            \div SecondsPerDay
         IN  IF days_late > 0 THEN Points(-days_late) ELSE 0

\* the value float(v) gives, when it gives one
IsInvalidTime(v) == v.kind \in {"None", "", "?", "N/A"}

\* efficiency_value is the exact ratio num / den (den > 0), or None
NoEfficiency == [defined |-> FALSE, num |-> 0, den |-> 1]

\* (None, "-", "-"): no efficiency, both displays the placeholder
NoMetrics ==
    [eff_value |-> NoEfficiency, acceleration |-> Placeholder,
     efficiency |-> Placeholder]

\* mutant: only the parallel time is required to be positive
Task_performance_metrics_try_ParallelOnly(task, perf_val, seq_val) ==
    IF perf_val.kind # "num" \/ seq_val.kind # "num" THEN Raised
    ELSE IF perf_val.val <= 0 THEN NoMetrics
    ELSE LET seq_t == seq_val.val
             par_t == perf_val.val
             procs == Max(task.eff_num_proc, 1)
         IN  [eff_value |-> [defined |-> TRUE, num |-> seq_t,
                             den |-> par_t * procs],
              acceleration |-> Shown(RoundHalfEven(100 * seq_t, par_t)),
              efficiency |-> Shown(RoundHalfEven(100 * seq_t, par_t * procs))]

\* the try block of _performance_metrics: float() raises on a string that is
\* not a number
Task_performance_metrics_try(task, perf_val, seq_val) ==
    IF perf_val.kind # "num" \/ seq_val.kind # "num" THEN Raised
    ELSE IF seq_val.val <= 0 \/ perf_val.val <= 0 THEN NoMetrics
    ELSE LET seq_t == seq_val.val
             par_t == perf_val.val
             procs == Max(task.eff_num_proc, 1)
         IN  [eff_value |-> [defined |-> TRUE, num |-> seq_t,
                             den |-> par_t * procs],
              acceleration |-> Shown(RoundHalfEven(100 * seq_t, par_t)),
              efficiency |-> Shown(RoundHalfEven(100 * seq_t, par_t * procs))]

\* mutant: the try block without its except clause
Task_performance_metrics_NoExcept(task, perf_val, seq_val) ==
    IF IsInvalidTime(perf_val) \/ IsInvalidTime(seq_val) THEN NoMetrics
    ELSE Task_performance_metrics_try(task, perf_val, seq_val)

Task_performance_metrics(task, perf_val, seq_val) ==
    IF IsInvalidTime(perf_val) \/ IsInvalidTime(seq_val) THEN NoMetrics
    ELSE LET result == Task_performance_metrics_try(task, perf_val, seq_val)
         IN  IF IsRaised(result) THEN NoMetrics   \* except Exception
             ELSE result

\* mutant: the threshold must be exceeded
MeetsThreshold_Strict(eff, threshold) == eff.num * 1000 > threshold * eff.den

\* mutant: the pair is taken when the efficiency is at or under the threshold
MeetsThreshold_Below(eff, threshold) == eff.num * 1000 <= threshold * eff.den

\* efficiency_value >= threshold, the threshold in thousandths
MeetsThreshold(eff, threshold) == eff.num * 1000 >= threshold * eff.den

RECURSIVE ScanScale(_, _, _)
ScanScale(scale, eff, max_points) ==
    IF scale = <<>> THEN 0
    ELSE IF MeetsThreshold(eff, Head(scale).threshold)
         THEN Round2(max_points * Head(scale).pct)
         ELSE ScanScale(Tail(scale), eff, max_points)

Task_efficiency_to_points(task, efficiency_value, max_points) ==
    IF ~efficiency_value.defined \/ max_points <= 0 THEN 0
    ELSE ScanScale(task.efficiency_scale, efficiency_value, max_points)

-----------------------------------------------------------------------------
(* tasks.py: ThreadSubmission, ThreadTask *)

\* Optional[ThreadSubmission]; impl_path carries, with the path, the commit
\* time git reports for it
NoSubmission == [present |-> FALSE]

ThreadSubmission(task_name, status, impl_path, perf_time, seq_time, report_present, copied) ==
    [present |-> TRUE, task_name |-> task_name, status |-> status,
     impl_path |-> impl_path, perf_time |-> perf_time, seq_time |-> seq_time,
     report_present |-> report_present, copied |-> copied]

Path(commit) == [known |-> TRUE, commit |-> commit]
NoPath == [known |-> FALSE, commit |-> NoInstant]

DeadlineInfo(due) == [due |-> due]

\* no task configured
NoTask == [configured |-> FALSE]

ThreadTask(name, s_points, a_points, r_points, deadline, copy_coeff, eff_num_proc, efficiency_scale) ==
    [configured |-> TRUE, name |-> name, max_points |-> s_points + a_points + r_points,
     s_points |-> s_points, a_points |-> a_points, r_points |-> r_points,
     deadline |-> deadline, copy_coeff |-> copy_coeff,
     eff_num_proc |-> eff_num_proc, efficiency_scale |-> efficiency_scale]

\* mutant: only done earns the solution points
SolutionPoints_DoneOnly(budget, status) ==
    IF status = "done" THEN Points(budget) ELSE 0

SolutionPoints(budget, status) ==
    IF status \in {"done", "disabled"} THEN Points(budget) ELSE 0

SolutionClass(status) ==
    IF status = "done" THEN "cell-success"
    ELSE IF status = "disabled" THEN "cell-muted" ELSE ""

\* mutant: the penalty is applied whether or not the submission is flagged
CopyPenalty_Unflagged(copy_coeff, solution_points, copied) ==
    -((copy_coeff * solution_points) \div 1000)

\* mutant: twice the penalty
CopyPenalty_Doubled(copy_coeff, solution_points, copied) ==
    IF copied THEN -((2 * copy_coeff * solution_points) \div 1000) ELSE 0

\* mutant: the penalty is added to the points
CopyPenalty_Bonus(copy_coeff, solution_points, copied) ==
    IF copied THEN (copy_coeff * solution_points) \div 1000 ELSE 0

\* -copy_coeff * solution_points: coefficient and points in thousandths
CopyPenalty(copy_coeff, solution_points, copied) ==
    IF copied THEN -((copy_coeff * solution_points) \div 1000) ELSE 0

\* mutant: the class follows the copy flag alone
CopyClass_FlagOnly(copied, status) ==
    IF copied THEN "cell-warning" ELSE ""

\* "cell-warning" if copied or status == "disabled" else ""
CopyClass(copied, status) ==
    IF copied \/ status = "disabled" THEN "cell-warning" ELSE ""

\* mutant: the seq task is measured like any other
ThreadTask_calculate_score_SeqTimed(task, submission) ==
    IF ~submission.present THEN EmptyTaskScore
    ELSE
    LET status == submission.status
        solution_points == SolutionPoints(task.s_points, status)
        deadline_penalty ==
            Task_deadline_penalty(task, submission.impl_path, status)
        copy_penalty ==
            CopyPenalty(task.copy_coeff, solution_points, submission.copied)
        report_points ==
            IF submission.report_present THEN Points(task.r_points) ELSE 0
        m == Task_performance_metrics(task, submission.perf_time,
                                      submission.seq_time)
        perf_points ==
            Task_efficiency_to_points(task, m.eff_value, task.a_points)
        timed == TRUE
    IN  IF timed /\ IsRaised(m) THEN Raised   \* an exception propagates
        ELSE
        TaskScore(solution_points,
                  SolutionClass(status),
                  IF timed THEN perf_points ELSE 0,
                  IF timed /\ m.eff_value.defined
                      THEN Format2(perf_points) ELSE Placeholder,
                  IF timed THEN m.acceleration ELSE Placeholder,
                  IF timed THEN m.efficiency ELSE Placeholder,
                  deadline_penalty,
                  copy_penalty,
                  CopyClass(submission.copied, status),
                  report_points,
                  IF report_points # 0 THEN "cell-success" ELSE "")

\* ThreadTask.calculate_score
ThreadTask_calculate_score(task, submission) ==
    IF ~submission.present THEN EmptyTaskScore
    ELSE
    LET status == submission.status
        solution_points == SolutionPoints(task.s_points, status)
        deadline_penalty ==
            Task_deadline_penalty(task, submission.impl_path, status)
        copy_penalty ==
            CopyPenalty(task.copy_coeff, solution_points, submission.copied)
        report_points ==
            IF submission.report_present THEN Points(task.r_points) ELSE 0
        m == Task_performance_metrics(task, submission.perf_time,
                                      submission.seq_time)
        perf_points ==
            Task_efficiency_to_points(task, m.eff_value, task.a_points)
        timed == task.name # "seq"
    IN  IF timed /\ IsRaised(m) THEN Raised   \* an exception propagates
        ELSE
        TaskScore(solution_points,
                  SolutionClass(status),
                  IF timed THEN perf_points ELSE 0,
                  IF timed /\ m.eff_value.defined
                      THEN Format2(perf_points) ELSE Placeholder,
                  IF timed THEN m.acceleration ELSE Placeholder,
                  IF timed THEN m.efficiency ELSE Placeholder,
                  deadline_penalty,
                  copy_penalty,
                  CopyClass(submission.copied, status),
                  report_points,
                  IF report_points # 0 THEN "cell-success" ELSE "")

-----------------------------------------------------------------------------
(* student.py: Student, thread side *)

NotCached == [cached |-> FALSE]
NeverCalled == [called |-> FALSE]
Cached(score) == [cached |-> TRUE, score |-> score]

\* Student.add_thread_submission, called with the submission read from the
\* folder; at most once per run
AddThreadSubmission ==
    /\ ~thread_submissions.present
    /\ thread_folder.present
    /\ thread_submissions' = thread_folder
    /\ UNCHANGED <<thread_task, thread_folder, task_scores, thread_call>>
    /\ UNCHANGED <<processVars, boardVars, assemblyVars, configVars>>

\* mutant: the score is computed again on every call
ScoreThread_Recompute ==
    /\ thread_task.configured
    /\ LET score == ThreadTask_calculate_score(thread_task, thread_submissions)
       IN  /\ task_scores' = IF IsRaised(score) THEN task_scores
                                                ELSE Cached(score)
           /\ thread_call' =
                  [called |-> TRUE, submission |-> thread_submissions]
    /\ UNCHANGED <<thread_task, thread_folder, thread_submissions>>
    /\ UNCHANGED <<processVars, boardVars, assemblyVars, configVars>>

\* Student.score_thread(task), for the configured task
ScoreThread ==
    /\ thread_task.configured
    /\ IF ~task_scores.cached
       THEN LET score == ThreadTask_calculate_score(thread_task,
                                                     thread_submissions)
            IN  /\ task_scores' = IF IsRaised(score) THEN task_scores
                                                     ELSE Cached(score)
                /\ thread_call' =
                       [called |-> TRUE, submission |-> thread_submissions]
       ELSE UNCHANGED <<task_scores, thread_call>>
    /\ UNCHANGED <<thread_task, thread_folder, thread_submissions>>
    /\ UNCHANGED <<processVars, boardVars, assemblyVars, configVars>>

\* Student.add_thread_submission called again for the same task name, with
\* other facts for the folder: the entry of the dict is overwritten
ReplaceThreadSubmission ==
    /\ thread_submissions.present
    /\ \E status \in {"done", None}, report \in BOOLEAN :
          thread_submissions' = [thread_folder EXCEPT
                                    !.status = status,
                                    !.report_present = report]
    /\ UNCHANGED <<thread_task, thread_folder, task_scores, thread_call>>
    /\ UNCHANGED <<processVars, boardVars, assemblyVars, configVars>>

-----------------------------------------------------------------------------
(* tasks.py: ProcessSubmission, ProcessScore, ProcessTask *)

\* work_dir: None, or a directory with the commit times git reports for its
\* seq and mpi sub-paths
NoWorkDir == [known |-> FALSE]
WorkDir(seq_commit, mpi_commit) ==
    [known |-> TRUE, commit |-> [seq |-> seq_commit, mpi |-> mpi_commit]]

ProcessSubmission(task_number, seq_status, mpi_status, work_dir, seq_time, mpi_time, report_present, seq_copied, mpi_copied) ==
    [present |-> TRUE, task_number |-> task_number,
     seq_status |-> seq_status, mpi_status |-> mpi_status,
     work_dir |-> work_dir, seq_time |-> seq_time, mpi_time |-> mpi_time,
     report_present |-> report_present, seq_copied |-> seq_copied,
     mpi_copied |-> mpi_copied]

ProcessSubmission_impl_path(submission, impl_name) ==
    IF ~submission.work_dir.known THEN NoPath
    ELSE Path(submission.work_dir.commit[impl_name])

ProcessScore(seq, mpi, report_points) ==
    [seq |-> seq, mpi |-> mpi, report_points |-> report_points]

\* mutant: the shared report bonus is left out of the total
ProcessScore_total_NoReport(s) ==
    Round2(TaskScore_total(s.seq) + TaskScore_total(s.mpi))

ProcessScore_total(s) ==
    Round2(TaskScore_total(s.seq) + TaskScore_total(s.mpi) + s.report_points)

ProcessTask(name, mpi_points, seq_points, r_points, variants_max, deadline, copy_coeff, eff_num_proc, efficiency_scale) ==
    [configured |-> TRUE, name |-> name,
     max_points |-> r_points + mpi_points.S + seq_points.S + mpi_points.A,
     mpi_points |-> mpi_points, seq_points |-> seq_points,
     r_points |-> r_points, variants_max |-> variants_max,
     deadline |-> deadline, copy_coeff |-> copy_coeff,
     eff_num_proc |-> eff_num_proc, efficiency_scale |-> efficiency_scale]

ProcessTask_calculate_score(task, submission) ==
    IF ~submission.present
    THEN ProcessScore(EmptyTaskScore, EmptyTaskScore, 0)
    ELSE
    LET seq_solution ==
            SolutionPoints(task.seq_points.S, submission.seq_status)
        seq_deadline ==
            Task_deadline_penalty(
                task, ProcessSubmission_impl_path(submission, "seq"),
                submission.seq_status)
        seq_copy_penalty ==
            CopyPenalty(task.copy_coeff, seq_solution, submission.seq_copied)
        seq_score ==
            [EmptyTaskScore EXCEPT
                !.solution_points = seq_solution,
                !.solution_class = SolutionClass(submission.seq_status),
                !.deadline_penalty = seq_deadline,
                !.copy_penalty = seq_copy_penalty,
                !.copy_class = CopyClass(submission.seq_copied,
                                         submission.seq_status)]
        mpi_solution ==
            SolutionPoints(task.mpi_points.S, submission.mpi_status)
        mpi_deadline ==
            Task_deadline_penalty(
                task, ProcessSubmission_impl_path(submission, "mpi"),
                submission.mpi_status)
        mpi_copy_penalty ==
            CopyPenalty(task.copy_coeff, mpi_solution, submission.mpi_copied)
        m == Task_performance_metrics(task, submission.mpi_time,
                                      submission.seq_time)
        perf_points ==
            Task_efficiency_to_points(task, m.eff_value, task.mpi_points.A)
        mpi_score ==
            [EmptyTaskScore EXCEPT
                !.solution_points = mpi_solution,
                !.solution_class = SolutionClass(submission.mpi_status),
                !.performance_points = perf_points,
                !.performance_display =
                    IF m.eff_value.defined THEN Format2(perf_points)
                    ELSE Placeholder,
                !.acceleration = m.acceleration,
                !.efficiency = m.efficiency,
                !.deadline_penalty = mpi_deadline,
                !.copy_penalty = mpi_copy_penalty,
                !.copy_class = CopyClass(submission.mpi_copied,
                                         submission.mpi_status)]
        report_points ==
            IF submission.report_present THEN Points(task.r_points) ELSE 0
    IN  IF IsRaised(m) THEN Raised   \* an exception propagates
        ELSE ProcessScore(seq_score, mpi_score, report_points)

-----------------------------------------------------------------------------
(* student.py: Student, process side *)

\* Student.add_process_submission, called with the submission read from the
\* folder; at most once per run
AddProcessSubmission ==
    /\ ~process_submissions.present
    /\ process_folder.present
    /\ process_submissions' = process_folder
    /\ UNCHANGED <<process_task, process_folder, process_scores, process_call>>
    /\ UNCHANGED <<threadVars, boardVars, assemblyVars, configVars>>

\* Student.score_process(task), for the configured task
ScoreProcess ==
    /\ process_task.configured
    /\ IF ~process_scores.cached
       THEN LET score == ProcessTask_calculate_score(process_task,
                                                      process_submissions)
            IN  /\ process_scores' = IF IsRaised(score) THEN process_scores
                                                        ELSE Cached(score)
                /\ process_call' =
                       [called |-> TRUE, submission |-> process_submissions]
       ELSE UNCHANGED <<process_scores, process_call>>
    /\ UNCHANGED <<process_task, process_folder, process_submissions>>
    /\ UNCHANGED <<threadVars, boardVars, assemblyVars, configVars>>

\* Student.add_process_submission called again for the same task name
ReplaceProcessSubmission ==
    /\ process_submissions.present
    /\ \E status \in {"done", None}, report \in BOOLEAN :
          process_submissions' = [process_folder EXCEPT
                                     !.mpi_status = status,
                                     !.report_present = report]
    /\ UNCHANGED <<process_task, process_folder, process_scores, process_call>>
    /\ UNCHANGED <<threadVars, boardVars, assemblyVars, configVars>>

-----------------------------------------------------------------------------
(* scoreboard.py: Scoreboard, thread track *)

NoBoard == [configured |-> FALSE]

\* the configuration a Scoreboard is constructed from: the thread tasks (in
\* the order of points-info), the variant count and the salt
Scoreboard(thread_tasks, variants_max, repo_salt) ==
    [configured |-> TRUE, thread_tasks |-> thread_tasks,
     variants_max |-> variants_max, repo_salt |-> repo_salt]

\* One discovered folder with what the loaders return for it.  statuses,
\* perf_entry and commit are keyed by implementation name; a name that the
\* dict lacks maps to None / NoTime.  flagged: the task keys under which the
\* copying configuration lists the folder.
Folder(info, statuses, perf_entry, report, flagged, commit) ==
    [info |-> info, statuses |-> statuses, perf_entry |-> perf_entry,
     report |-> report, flagged |-> flagged, commit |-> commit]

\* group strings are modelled by records [text, padded, upper]: the text in
\* upper case, whether it carries surrounding blanks and whether it is
\* written in upper case
Group(text, padded, upper) == [text |-> text, padded |-> padded, upper |-> upper]

normalize_group(group) == Group(group.text, FALSE, TRUE)

\* the group string ""
EmptyGroup == Group("", FALSE, TRUE)

\* JSON null (Python None) as the value of a field of info.json
Null == "null"

\* dict.get(key, default); a dict is a function on the keys it holds
dict_get(d, key, default) == IF key \in DOMAIN d THEN d[key] ELSE default

\* the Student constructed from the student block of info.json
Student(info) ==
    [last_name |-> dict_get(info, "last_name", ""),
     first_name |-> dict_get(info, "first_name", ""),
     middle_name |-> dict_get(info, "middle_name", ""),
     group_number |-> normalize_group(dict_get(info, "group_number",
                                               EmptyGroup)),
     thread_submissions |-> [n \in {} |-> NoSubmission],
     task_scores |-> [n \in {} |-> NotCached],
     process_submissions |-> [n \in {} |-> NoSubmission],
     process_scores |-> [n \in {} |-> NotCached]]

\* "|".join(parts): the parts and the separators between them
Join(parts) == [parts |-> parts, separators |-> Len(parts) - 1]

\* bool(text) of a joined text: it is empty only without separators and
\* with every part empty
Truthy(text) ==
    text.separators > 0 \/ \E i \in 1..Len(text.parts) : text.parts[i] # ""

\* value or "": None and "" give ""
or_empty(value) == IF value = Null \/ value = "" THEN "" ELSE value

\* str(value): None gives the text None
py_str(value) == IF value = Null THEN "None" ELSE value

\* Student.identity_key
Student_identity_key(student) ==
    Join(<<or_empty(student.last_name), or_empty(student.first_name),
           or_empty(student.middle_name),
           or_empty(student.group_number.text)>>)

Scoreboard_is_copied(folder, task_key) == task_key \in folder.flagged

\* the Student that _build_thread_students makes of one folder: a
\* submission for every configured task, present or not
ThreadStudentOf(b, folder) ==
    LET names == {b.thread_tasks[i].name : i \in 1..Len(b.thread_tasks)}
        seq_time == folder.perf_entry["seq"]
    IN  [Student(folder.info) EXCEPT
            !.thread_submissions =
                [n \in names |->
                    ThreadSubmission(n, folder.statuses[n],
                                     Path(folder.commit[n]),
                                     folder.perf_entry[n], seq_time,
                                     folder.report,
                                     Scoreboard_is_copied(folder, n))]]

\* Scoreboard._build_thread_students: the folders in ascending name order
\* (status_map is kept in that order), one Student appended per folder
BuildThreadStudents ==
    /\ board.configured
    /\ thread_students = <<>>
    /\ Len(status_map) > 0
    /\ thread_students' =
           [i \in 1..Len(status_map) |-> ThreadStudentOf(board, status_map[i])]
    /\ UNCHANGED <<board, status_map, rows>>
    /\ UNCHANGED <<threadVars, processVars, assemblyVars, configVars>>

\* Student.score_thread on a Student record: the cached score, or the one
\* calculate_score gives for the stored submission (None when there is none)
Student_score_thread(student, task) ==
    IF task.name \in DOMAIN student.task_scores
    THEN student.task_scores[task.name]
    ELSE ThreadTask_calculate_score(
             task,
             IF task.name \in DOMAIN student.thread_submissions
             THEN student.thread_submissions[task.name] ELSE NoSubmission)

RECURSIVE SumTotals(_, _, _)
SumTotals(student, tasks, i) ==
    IF i > Len(tasks) THEN 0
    ELSE TaskScore_total(Student_score_thread(student, tasks[i]))
         + SumTotals(student, tasks, i + 1)

Student_threads_total(student, tasks) == Round2(SumTotals(student, tasks, 1))

\* the repo argument of the hash: the salt, followed for the process track
\* by "/processes/task-<idx>" (task 0: the salt alone)
Repo(salt, task) == [salt |-> salt, task |-> task]

\* assign_variant: the external hash of the identity and the salt into
\* 0..num_variants - 1, here the count of the identity fields that are set
\* plus the task of the salt; it raises for the salts of hash_raises
assign_variant(student, repo, num_variants) ==
    IF repo \in hash_raises THEN Raised
    ELSE [value |->
            (Cardinality({f \in {"last_name", "first_name", "middle_name"} :
                             student[f] \notin {"", Null}}) + repo.task)
            % num_variants]

\* a rendered variant: str(vidx + 1), or the marker "?"
Variant(number) == [known |-> TRUE, number |-> number]
UnknownVariant == [known |-> FALSE, number |-> 0]

\* Scoreboard.thread_variant (a Student object is always truthy)
Scoreboard_thread_variant(b, student) ==
    LET vidx == assign_variant(student, Repo(b.repo_salt, 0), b.variants_max)
    IN  IF IsRaised(vidx) THEN UnknownVariant   \* except Exception
        ELSE Variant(vidx.value + 1)

\* the name parts that are set, joined by <br/> (kept as a sequence), or the
\* dash shown for a student without a name
Student_display_name(student) ==
    LET parts == SelectSeq(<<student.last_name, student.first_name,
                             student.middle_name>>,
                           LAMBDA part : part \notin {"", Null})
    IN  IF parts = <<>> THEN <<"-">> ELSE parts

ThreadsRow(b, student) ==
    [name |-> Student_display_name(student),
     variant |-> Scoreboard_thread_variant(b, student),
     cells |-> [n \in {b.thread_tasks[i].name : i \in 1..Len(b.thread_tasks)}
                  |-> Student_score_thread(
                          student,
                          b.thread_tasks[CHOOSE i \in 1..Len(b.thread_tasks) :
                                             b.thread_tasks[i].name = n])],
     total |-> Student_threads_total(student, b.thread_tasks)]

\* Scoreboard.build_threads_rows: a row per student; every score asked for
\* stays in the student's cache
BuildThreadsRows ==
    /\ board.configured
    /\ rows = <<>>
    /\ Len(thread_students) > 0
    /\ rows' = [i \in 1..Len(thread_students) |->
                   ThreadsRow(board, thread_students[i])]
    /\ thread_students' =
           [i \in 1..Len(thread_students) |->
               [thread_students[i] EXCEPT
                   !.task_scores =
                       [n \in DOMAIN rows'[i].cells |-> rows'[i].cells[n]]]]
    /\ UNCHANGED <<board, status_map>>
    /\ UNCHANGED <<threadVars, processVars, assemblyVars, configVars>>

-----------------------------------------------------------------------------
(* scoreboard.py: Scoreboard, process track *)

\* A folder of the process track with what the loaders return for it.
\* info: the dict load_student_info(work_dir) or {} gives, {} (no key) when
\* info.json is missing or cannot be parsed.  statuses, perf_entry and
\* commit are keyed by "seq" and "mpi".
ProcessFolder(dir_name, info, statuses, perf_entry, report, flagged, commit) ==
    [dir_name |-> dir_name, info |-> info, statuses |-> statuses,
     perf_entry |-> perf_entry, report |-> report, flagged |-> flagged,
     commit |-> commit]

\* the directory _resolve_dir gives, with the commit times of its sub-paths
ResolvedDir(dir_name, commit) ==
    [known |-> TRUE, dir_name |-> dir_name, commit |-> commit]

\* Scoreboard._identity_key(student_info)
Scoreboard_identity_key(student_info) ==
    Join(<<py_str(dict_get(student_info, "last_name", "")),
           py_str(dict_get(student_info, "first_name", "")),
           py_str(dict_get(student_info, "middle_name", "")),
           normalize_group(dict_get(student_info, "group_number",
                                    EmptyGroup)).text>>)

\* the value of task_number in info.json: an integer, a float (in tenths),
\* a string of digits, any other string, or null
JsonNumber(kind, val) == [kind |-> kind, val |-> val]

\* int(value): floats are truncated toward zero, strings of digits parsed;
\* other strings and None raise
py_int(v) ==
    IF v.kind = "int" \/ v.kind = "digits" THEN [value |-> v.val]
    ELSE IF v.kind = "float"
         THEN [value |-> IF v.val >= 0 THEN v.val \div 10
                                       ELSE -((-v.val) \div 10)]
         ELSE Raised

\* a check that returns without raising
Passed == [passed |-> TRUE]

\* nobody: an error message that names no student
Nobody == Join(<<>>)

\* RuntimeError(message): the kind of message, and the folder and the
\* student the message names ("" and Nobody when it names none)
RuntimeError(message, folder, student) ==
    [raised |-> TRUE, message |-> message, folder |-> folder,
     student |-> student]

\* Scoreboard._parse_task_number
Scoreboard_parse_task_number(student_info, work_dir, identity) ==
    LET number == py_int(dict_get(student_info, "task_number",
                                  JsonNumber("int", 1)))
    IN  IF IsRaised(number)
        THEN RuntimeError("Invalid task_number", work_dir, identity)
        ELSE number

\* Scoreboard._validate_task_number
Scoreboard_validate_task_number(task_number, num_tasks, work_dir, identity) ==
    IF num_tasks <= 0
    THEN RuntimeError("No process tasks configured", "", Nobody)
    ELSE IF task_number < 1 \/ task_number > num_tasks
         THEN RuntimeError("task_number out of range", work_dir, identity)
         ELSE Passed

\* Scoreboard._ensure_unique_submission
Scoreboard_ensure_unique_submission(student, task_name, work_dir, identity) ==
    IF task_name \in DOMAIN student.process_submissions
    THEN RuntimeError("Duplicate process task", work_dir, identity)
    ELSE Passed

\* f"mpi_task_{task_number}"
mpi_task_name(task_number) ==
    IF task_number = 1 THEN "mpi_task_1"
    ELSE IF task_number = 2 THEN "mpi_task_2" ELSE "mpi_task_n"

\* Scoreboard._make_process_submission
Scoreboard_make_process_submission(task_number, folder) ==
    ProcessSubmission(task_number, folder.statuses["seq"],
                      folder.statuses["mpi"],
                      ResolvedDir(folder.dir_name, folder.commit),
                      folder.perf_entry["seq"], folder.perf_entry["mpi"],
                      folder.report,
                      Scoreboard_is_copied(folder, "seq"),
                      Scoreboard_is_copied(folder, "mpi"))

\* One pass of the loop of _build_process_students over a folder: the dict
\* students_by_identity after it, or the error raised.  A Student that is
\* not found under the identity of the folder is created and stored under
\* its own identity_key().
Scoreboard_process_folder(tasks, students_by_identity, folder) ==
    LET work_dir == folder.dir_name
        student_info == folder.info
        identity == Scoreboard_identity_key(student_info)
        found == identity \in DOMAIN students_by_identity
        student == IF found THEN students_by_identity[identity]
                            ELSE Student(student_info)
        key == IF found THEN identity ELSE Student_identity_key(student)
        task_number ==
            Scoreboard_parse_task_number(student_info, work_dir, identity)
        valid == Scoreboard_validate_task_number(task_number.value, Len(tasks),
                                                 work_dir, identity)
        task_name == mpi_task_name(task_number.value)
        unique == Scoreboard_ensure_unique_submission(student, task_name,
                                                      work_dir, identity)
        submission ==
            Scoreboard_make_process_submission(task_number.value, folder)
    IN  IF ~Truthy(identity) THEN [students |-> students_by_identity]
        ELSE IF IsRaised(task_number) THEN task_number
        ELSE IF IsRaised(valid) THEN valid
        ELSE IF IsRaised(unique) THEN unique
        ELSE [students |->
                (key :> [student EXCEPT !.process_submissions =
                                            (task_name :> submission) @@ @])
                @@ students_by_identity]

RECURSIVE Scoreboard_process_folders(_, _, _, _)
Scoreboard_process_folders(tasks, dirs, i, students_by_identity) ==
    IF i > Len(dirs) THEN [students |-> students_by_identity]
    ELSE LET step == Scoreboard_process_folder(tasks, students_by_identity,
                                               dirs[i])
         IN  IF IsRaised(step) THEN step
             ELSE Scoreboard_process_folders(tasks, dirs, i + 1,
                                             step.students)

\* The order of sorted() on the parts of a key.  The separator "|" follows
\* every letter and digit, so an empty part comes after a part that is set;
\* the names drawn share no prefix within one field.
TextRank(text) ==
    CASE text = "G1" -> 1
      [] text = "Ivan" -> 2
      [] text = "Ivanov" -> 3
      [] text = "Ivanovich" -> 4
      [] text = "None" -> 5
      [] text = "Petrov" -> 6
      [] OTHER -> 7

RECURSIVE PartsBefore(_, _, _)
PartsBefore(a, b, i) ==
    IF i > Len(a) THEN FALSE
    ELSE IF a[i] = b[i] THEN PartsBefore(a, b, i + 1)
         ELSE TextRank(a[i]) < TextRank(b[i])

RECURSIVE sorted(_)
sorted(keys) ==
    IF keys = {} THEN <<>>
    ELSE LET first == CHOOSE k \in keys :
                          \A other \in keys \ {k} :
                              PartsBefore(k.parts, other.parts, 1)
         IN  <<first>> \o sorted(keys \ {first})

\* Scoreboard._build_process_students: the students in the order of their
\* keys, or the error raised
Scoreboard_build_process_students(tasks, dirs) ==
    LET built == Scoreboard_process_folders(tasks, dirs, 1,
                                            [k \in {} |-> Student(<<>>)])
    IN  IF IsRaised(built) THEN built
        ELSE LET keys == sorted(DOMAIN built.students)
             IN  [students |-> [i \in 1..Len(keys) |->
                                   built.students[keys[i]]]]

\* mutant: the identities are kept per folder, so repeated ones are counted
Scoreboard_collect_identities_PerFolder(dirs) ==
    {<<i, Scoreboard_identity_key(dirs[i].info)>> : i \in 1..Len(dirs)}

\* Scoreboard._collect_identities
Scoreboard_collect_identities(dirs) ==
    {identity \in {Scoreboard_identity_key(dirs[i].info) : i \in 1..Len(dirs)} :
        Truthy(identity)}

\* mutant: only the process track is compared
ConsistencyGuard_ProcessOnly(thread_identities, thread_count, proc_identities, process_count) ==
    IF Cardinality(proc_identities) # process_count
    THEN RuntimeError("Processes track mismatch", "", Nobody)
    ELSE Passed

\* the consistency guard of from_files
ConsistencyGuard(thread_identities, thread_count, proc_identities, process_count) ==
    IF Cardinality(thread_identities) # thread_count
    THEN RuntimeError("Threads track mismatch", "", Nobody)
    ELSE IF Cardinality(proc_identities) # process_count
         THEN RuntimeError("Processes track mismatch", "", Nobody)
         ELSE Passed

NotRun == [called |-> FALSE]
Returned == [called |-> TRUE, returned |-> TRUE]
Aborted(error) == [called |-> TRUE, returned |-> FALSE, error |-> error]

\* Scoreboard.from_files on a constructed board: status_map holds the
\* folders without an mpi implementation, processes_dirs those with one.
\* The board is returned with both lists of students, or the run aborts.
FromFiles ==
    /\ board.configured
    /\ ~run.called
    /\ LET students == [i \in 1..Len(status_map) |->
                           ThreadStudentOf(board, status_map[i])]
           built == Scoreboard_build_process_students(process_tasks,
                                                      processes_dirs)
           guard ==
               IF IsRaised(built) THEN built
               ELSE ConsistencyGuard(
                        Scoreboard_collect_identities(status_map),
                        Len(students),
                        Scoreboard_collect_identities(processes_dirs),
                        Len(built.students))
       IN  IF IsRaised(guard)
           THEN /\ run' = Aborted(guard)
                /\ UNCHANGED <<thread_students, process_students>>
           ELSE /\ run' = Returned
                /\ thread_students' = students
                /\ process_students' = built.students
    /\ UNCHANGED <<board, status_map, rows, process_tasks, processes_dirs,
                   process_rows, hash_raises>>
    /\ UNCHANGED <<threadVars, processVars, configVars>>

\* Student.score_process on a Student record
Student_score_process(student, task) ==
    IF task.name \in DOMAIN student.process_scores
    THEN student.process_scores[task.name]
    ELSE ProcessTask_calculate_score(
             task,
             IF task.name \in DOMAIN student.process_submissions
             THEN student.process_submissions[task.name] ELSE NoSubmission)

\* mutant: one except clause around the whole loop
Scoreboard_process_variants_AllOrNothing(b, tasks, student) ==
    LET vidx(idx) == assign_variant(student, Repo(b.repo_salt, idx),
                                    tasks[idx].variants_max)
    IN  [idx \in 1..Len(tasks) |->
            IF \E other \in 1..Len(tasks) : IsRaised(vidx(other))
            THEN UnknownVariant ELSE Variant(vidx(idx).value + 1)]

\* Scoreboard.process_variants: the rendered variants, one per task (joined
\* by <br/>, kept as a sequence)
Scoreboard_process_variants(b, tasks, student) ==
    LET vidx(idx) == assign_variant(student, Repo(b.repo_salt, idx),
                                    tasks[idx].variants_max)
    IN  [idx \in 1..Len(tasks) |->
            IF IsRaised(vidx(idx)) THEN UnknownVariant   \* except Exception
            ELSE Variant(vidx(idx).value + 1)]

RECURSIVE SumProcessTotals(_, _, _)
SumProcessTotals(student, tasks, i) ==
    IF i > Len(tasks) THEN 0
    ELSE ProcessScore_total(Student_score_process(student, tasks[i]))
         + SumProcessTotals(student, tasks, i + 1)

\* the row build_process_rows makes of a student
ProcessesRow(b, tasks, student) ==
    [name |-> Student_display_name(student),
     variant |-> Scoreboard_process_variants(b, tasks, student),
     groups |-> [i \in 1..2 * Len(tasks) |->
                    IF i % 2 = 1
                    THEN Student_score_process(student, tasks[(i + 1) \div 2]).seq
                    ELSE Student_score_process(student, tasks[i \div 2]).mpi],
     r_values |-> [i \in 1..Len(tasks) |->
                      Student_score_process(student, tasks[i]).report_points],
     total |-> Round2(SumProcessTotals(student, tasks, 1))]

\* Scoreboard.build_process_rows on the board from_files returned; every
\* score asked for stays in the student's cache
BuildProcessRows ==
    /\ run.called /\ run.returned
    /\ process_rows = <<>>
    /\ Len(process_students) > 0
    /\ process_rows' = [i \in 1..Len(process_students) |->
                           ProcessesRow(board, process_tasks,
                                        process_students[i])]
    /\ process_students' =
           [i \in 1..Len(process_students) |->
               [process_students[i] EXCEPT
                   !.process_scores =
                       [n \in {process_tasks[j].name :
                                  j \in 1..Len(process_tasks)} |->
                           Student_score_process(
                               process_students[i],
                               process_tasks[CHOOSE j \in 1..Len(process_tasks) :
                                                 process_tasks[j].name = n])]]]
    /\ UNCHANGED <<board, status_map, thread_students, rows, process_tasks,
                   processes_dirs, run, hash_raises>>
    /\ UNCHANGED <<threadVars, processVars, configVars>>

-----------------------------------------------------------------------------
(* scoreboard.py: the efficiency scale of the configuration *)

\* float(value) of a JSON value: a number (here in thousandths) is
\* converted, None and text that is not a number raise
py_float(v) == IF v.kind = "num" THEN [value |-> v.val] ELSE Raised

\* one {threshold, percent} entry of the configured list
ScaleEntry(threshold, percent) == [threshold |-> threshold, percent |-> percent]

NotParsed == [parsed |-> FALSE, pairs |-> <<>>]
Parsed(pairs) == [parsed |-> TRUE, pairs |-> pairs]

\* Scoreboard._parse_efficiency_scale: an entry float() rejects is skipped
RECURSIVE Scoreboard_parse_efficiency_scale(_)
Scoreboard_parse_efficiency_scale(raw) ==
    IF raw = <<>> THEN <<>>
    ELSE LET threshold == py_float(Head(raw).threshold)
             percent == py_float(Head(raw).percent)
             rest == Scoreboard_parse_efficiency_scale(Tail(raw))
         IN  IF IsRaised(threshold) \/ IsRaised(percent) THEN rest
             ELSE <<[threshold |-> threshold.value, pct |-> percent.value]>>
                  \o rest

\* Scoreboard.__init__ with no efficiency_scale argument: the scale is
\* parsed from points_info
ParseEfficiencyScale ==
    /\ ~board_scale.parsed
    /\ board_scale' = Parsed(Scoreboard_parse_efficiency_scale(raw_scale))
    /\ UNCHANGED <<raw_scale, perf_budget, points_of>>
    /\ UNCHANGED <<threadVars, processVars, boardVars, assemblyVars,
                   deadlineVars, legacyVars>>

\* an efficiency value: the ratio num / den
Efficiency(num, den) == [defined |-> TRUE, num |-> num, den |-> den]

\* the efficiencies a submission of the model can reach, and None
Efficiencies ==
    {NoEfficiency} \cup {Efficiency(k, 8) : k \in {1, 2, 3, 4, 6}}

\* Task._efficiency_to_points of a task built with the parsed scale, called
\* for one more efficiency
EfficiencyToPoints ==
    /\ board_scale.parsed
    /\ \E e \in Efficiencies :
          /\ \A asked \in points_of : asked.eff # e
          /\ points_of' =
                 points_of
                 \cup {[eff |-> e,
                        points |-> Task_efficiency_to_points(
                                       [efficiency_scale |->
                                            board_scale.pairs],
                                       e, perf_budget)]}
    /\ UNCHANGED <<raw_scale, board_scale, perf_budget>>
    /\ UNCHANGED <<threadVars, processVars, boardVars, assemblyVars,
                   deadlineVars, legacyVars>>

-----------------------------------------------------------------------------
(* scoreboard.py: deadlines *)

\* A date is the number of its day, day 1 being 1 January of the year the
\* deadlines are computed for; an instant is a number of seconds, second 0
\* being 00:00:00 of day 0, so that day d at 23:59:00 is
\* d * SecondsPerDay + 23 h 59 min.

MonthLengths(leap) ==
    <<31, IF leap THEN 29 ELSE 28, 31, 30, 31, 30, 31, 31, 30, 31, 30, 31>>

YearLength(leap) == IF leap THEN 366 ELSE 365

RECURSIVE DaysBefore(_, _)
DaysBefore(leap, month) ==
    IF month <= 1 THEN 0
    ELSE DaysBefore(leap, month - 1) + MonthLengths(leap)[month - 1]

\* date(year, month, day)
date(leap, month, day) == DaysBefore(leap, month) + day

\* the month a day of the year falls in
MonthOf(leap, d) ==
    CHOOSE m \in 1..12 :
        DaysBefore(leap, m) < d /\ d <= DaysBefore(leap, m) + MonthLengths(leap)[m]

\* calendar.month_abbr[1..12]
month_abbr ==
    <<"Jan", "Feb", "Mar", "Apr", "May", "Jun", "Jul", "Aug", "Sep", "Oct",
      "Nov", "Dec">>

\* a label that is a day and a month, and a label that is a text
DateLabel(day, month) == [kind |-> "date", day |-> day, text |-> month]
TextLabel(text) == [kind |-> "text", day |-> 0, text |-> text]

\* Scoreboard._abbr(d): f"{d.day} {calendar.month_abbr[d.month]}"; a day
\* before day 1 is in December of the year before, a day after the last
\* one in January of the year after
Scoreboard_abbr(leap, d) ==
    IF d < 1 THEN DateLabel(31 + d, month_abbr[12])
    ELSE IF d > YearLength(leap)
         THEN DateLabel(d - YearLength(leap), month_abbr[1])
         ELSE LET m == MonthOf(leap, d)
              IN  DateLabel(d - DaysBefore(leap, m), month_abbr[m])

\* mutant: the step is truncated, not rounded
Scoreboard_evenly_spaced_dates_Floor(n, start, end) ==
    IF n <= 1 THEN <<end>>
    ELSE [i \in 1..n |-> start + ((end - start) * i) \div n]

\* Scoreboard._evenly_spaced_dates (builder._evenly_spaced_dates is the
\* same code): total / n * (i + 1), rounded half to even
Scoreboard_evenly_spaced_dates(n, start, end) ==
    IF n <= 1 THEN <<end>>
    ELSE LET total == end - start
         IN  [i \in 1..n |-> start + RoundHalfEven(total * i, n)]

\* an override of deadlines.json: an integer, or a value that is not one,
\* with the text str() gives for it
IntShift(days) == [kind |-> "int", days |-> days, text |-> ""]
OtherShift(kind, text) == [kind |-> kind, days |-> 0, text |-> text]

\* DeadlineInfo(label=..., due=...)
LabelledDeadline(label, due) == [label |-> label, due |-> due]

\* datetime.combine(due_date, 23:59:00)
EndOfDay(d) == Instant(d * SecondsPerDay + 23 * SecondsPerHour + 59 * 60)

\* mutant: the override is not applied to the due instant
ShiftedDeadline_Unshifted(leap, base, shift) ==
    IF shift.kind = "int"
    THEN LabelledDeadline(Scoreboard_abbr(leap, base + shift.days),
                          EndOfDay(base))
    ELSE LabelledDeadline(TextLabel(shift.text), NoInstant)

\* the body of the loop of _compute_threads_deadlines and of
\* _compute_process_deadlines: isinstance(shift, int) or not
ShiftedDeadline(leap, base, shift) ==
    IF shift.kind = "int"
    THEN LET due_date == base + shift.days
         IN  LabelledDeadline(Scoreboard_abbr(leap, due_date),
                              EndOfDay(due_date))
    ELSE LabelledDeadline(TextLabel(shift.text), NoInstant)

Min(a, b) == IF a <= b THEN a ELSE b

\* Scoreboard._compute_threads_deadlines: a dict keyed by task name, built
\* over zip(names, base_dates); a name met twice keeps its last entry
Scoreboard_compute_threads_deadlines(leap, shifts, base, names) ==
    LET start == date(leap, dict_get(base, "start_month", 2),
                      dict_get(base, "start_day", 1))
        end == date(leap, dict_get(base, "end_month", 5),
                    dict_get(base, "end_day", 15))
        base_dates == Scoreboard_evenly_spaced_dates(Len(names), start, end)
        zipped == 1..Min(Len(names), Len(base_dates))
        last(name) == CHOOSE i \in zipped :
                          /\ names[i] = name
                          /\ \A j \in zipped : names[j] = name => j <= i
    IN  [window |-> [start |-> start, end |-> end],
         base_dates |-> base_dates,
         result |-> [name \in {names[i] : i \in zipped} |->
                        ShiftedDeadline(leap, base_dates[last(name)],
                                        dict_get(shifts, name, IntShift(0)))]]

\* f"task_{idx}" and f"mpi_task_{idx}"
task_key(idx) ==
    <<"task_1", "task_2", "task_3", "task_4", "task_5", "task_6">>[idx]
mpi_task_key(idx) ==
    <<"mpi_task_1", "mpi_task_2", "mpi_task_3", "mpi_task_4", "mpi_task_5",
      "mpi_task_6">>[idx]

\* Scoreboard._compute_process_deadlines: a list, one entry per base date
Scoreboard_compute_process_deadlines(leap, shifts, count, base) ==
    LET start == date(leap, dict_get(base, "start_month", 10),
                      dict_get(base, "start_day", 15))
        end == date(leap, dict_get(base, "end_month", 12),
                    dict_get(base, "end_day", 14))
        base_dates == Scoreboard_evenly_spaced_dates(count, start, end)
    IN  [window |-> [start |-> start, end |-> end],
         base_dates |-> base_dates,
         result |-> [idx \in 1..Len(base_dates) |->
                        ShiftedDeadline(
                            leap, base_dates[idx],
                            dict_get(shifts, task_key(idx),
                                     dict_get(shifts, mpi_task_key(idx),
                                              IntShift(0))))]]

NotComputed == [computed |-> FALSE]
Computed(track, computation) ==
    [computed |-> TRUE, track |-> track, window |-> computation.window,
     base_dates |-> computation.base_dates, result |-> computation.result]

\* Scoreboard._build_thread_tasks, up to the deadlines it computes
ComputeThreadsDeadlines ==
    /\ ~deadlines.computed
    /\ deadlines' =
           Computed("threads",
                    Scoreboard_compute_threads_deadlines(
                        deadline_shifts.leap, deadline_shifts.threads,
                        deadline_shifts.threads_base, deadline_shifts.names))
    /\ UNCHANGED <<deadline_shifts, last_penalty>>
    /\ UNCHANGED <<threadVars, processVars, boardVars, assemblyVars, scaleVars,
                   legacyVars>>

\* Scoreboard._build_process_tasks, up to the deadlines it computes
ComputeProcessDeadlines ==
    /\ ~deadlines.computed
    /\ deadlines' =
           Computed("processes",
                    Scoreboard_compute_process_deadlines(
                        deadline_shifts.leap, deadline_shifts.processes,
                        Len(deadline_shifts.names),
                        deadline_shifts.processes_base))
    /\ UNCHANGED <<deadline_shifts, last_penalty>>
    /\ UNCHANGED <<threadVars, processVars, boardVars, assemblyVars, scaleVars,
                   legacyVars>>

\* the instants at which the submissions of the model were committed: noon
\* of 9 April and of 15 December
DeadlineCommits ==
    {NoInstant} \cup {Instant(d * SecondsPerDay + 12 * SecondsPerHour) :
                         d \in {100, 349}}

NotAsked == [asked |-> FALSE]

\* Task._deadline_penalty of a task built with one of the deadlines, for a
\* submission committed at some instant; one submission is scored in a run
DeadlinePenalty ==
    /\ deadlines.computed
    /\ ~last_penalty.asked
    /\ \E key \in DOMAIN deadlines.result, commit \in DeadlineCommits,
          status \in {"done", "disabled"} :
          last_penalty' = [asked |-> TRUE, key |-> key,
                           commit |-> commit,
                           status |-> status,
                           penalty |-> Task_deadline_penalty(
                                           [deadline |->
                                                deadlines.result[key]],
                                           Path(commit), status)]
    /\ UNCHANGED <<deadline_shifts, deadlines>>
    /\ UNCHANGED <<threadVars, processVars, boardVars, assemblyVars, scaleVars,
                   legacyVars>>

-----------------------------------------------------------------------------
(* builder.py, metrics.py: the row builder of the command-line entry point *)

THREAD_TASK_TYPES == <<"seq", "omp", "tbb", "stl", "all">>

\* metrics.EFFICIENCY_SCALE: (0.50, 1.0), (0.45, 0.9), ... (0.25, 0.1)
EFFICIENCY_SCALE ==
    [i \in 1..10 |->
        [threshold |->
             <<500, 450, 420, 400, 370, 350, 320, 300, 270, 250>>[i],
         pct |-> 1100 - 100 * i]]

\* the first entry of points_info["threads"]["tasks"] with the name: the
\* entries are read off the thread tasks the board built from them
ConfiguredEntry(points_info, task_type) ==
    {i \in 1..Len(points_info) :
        /\ points_info[i].name = task_type
        /\ \A j \in 1..(i - 1) : points_info[j].name # task_type}

\* metrics.get_solution_points_and_style: KeyError for a task type that is
\* not configured (other than mpi)
get_solution_points_and_style(task_type, status, points_info) ==
    LET entries == ConfiguredEntry(points_info, task_type)
    IN  IF entries = {}
        THEN IF task_type = "mpi" THEN [points |-> 0, style |-> ""]
             ELSE Raised
        ELSE LET entry == points_info[CHOOSE i \in entries : TRUE]
             IN  IF status = "done"
                 THEN [points |-> Points(entry.s_points),
                       style |-> "background-color: #d8f5d0;"]
                 ELSE IF status = "disabled"
                      THEN [points |-> Points(entry.s_points),
                            style |-> "background-color: #ffd8e1;"]
                      ELSE [points |-> 0, style |-> ""]

\* builder._find_report_max
find_report_max(points_info, task_type) ==
    LET entries == ConfiguredEntry(points_info, task_type)
    IN  IF entries = {} THEN 0
        ELSE points_info[CHOOSE i \in entries : TRUE].r_points

\* builder._find_performance_max
find_performance_max(points_info, task_type) ==
    LET entries == ConfiguredEntry(points_info, task_type)
    IN  IF entries = {} THEN 0
        ELSE points_info[CHOOSE i \in entries : TRUE].a_points

\* metrics.check_plagiarism_and_calculate_penalty.  The folders of the model
\* carry no _disabled suffix and the copying lists name no such folder, so
\* "task_dir in flagged or clean_name in flagged" is the membership that
\* folder.flagged records.
check_plagiarism_and_calculate_penalty(folder, task_type, sol_points, coeff) ==
    LET is_cheated == task_type \in folder.flagged
    IN  [is_plagiarised |-> is_cheated,
         penalty |-> IF is_cheated /\ sol_points # 0
                     THEN -((coeff * sol_points) \div 1000) ELSE 0]

\* metrics.calculate_deadline_penalty; commit is what git log reports for
\* the implementation directory
calculate_deadline_penalty(status, deadline, commit) ==
    IF status # "done" \/ ~deadline.known THEN 0
    ELSE IF ~commit.known THEN 0
    ELSE LET days_late == (commit.at - deadline.at) \div SecondsPerDay
         IN  IF days_late > 0 THEN Points(-days_late) ELSE 0

\* ("-", "-"): both displays the placeholder
NoDisplays == [acceleration |-> Placeholder, efficiency |-> Placeholder]

\* the displays of the speedup num / den
SpeedupDisplays(num, den, eff_num_proc, task_type) ==
    IF task_type = "seq"
    THEN [acceleration |-> Shown(100), efficiency |-> Placeholder]
    ELSE [acceleration |-> Shown(RoundHalfEven(100 * num, den)),
          efficiency |-> Shown(RoundHalfEven(100 * num, den * eff_num_proc))]

\* metrics.calculate_performance_metrics: with a seq time the speedup is
\* seq / par; without one perf_val is read as the ratio par / seq.  float()
\* of a string that is no number raises, and the except clause answers with
\* the placeholders.
calculate_performance_metrics(perf_val, eff_num_proc, task_type, seq_val) ==
    IF IsInvalidTime(perf_val) \/ eff_num_proc <= 0 THEN NoDisplays
    ELSE IF ~IsInvalidTime(seq_val)
         THEN IF seq_val.kind # "num" \/ perf_val.kind # "num"
              THEN NoDisplays
              ELSE IF seq_val.val <= 0 \/ perf_val.val <= 0 THEN NoDisplays
              ELSE SpeedupDisplays(seq_val.val, perf_val.val, eff_num_proc,
                                   task_type)
         ELSE IF perf_val.kind # "num" THEN NoDisplays
              ELSE IF perf_val.val <= 0 THEN NoDisplays
              ELSE SpeedupDisplays(1, perf_val.val, eff_num_proc, task_type)

\* float(efficiency) of the efficiency display: the number shown, with its
\* two decimals, or None for the placeholder
DisplayedEfficiency(efficiency) ==
    IF efficiency.shown
    THEN [defined |-> TRUE, num |-> efficiency.centi, den |-> 100]
    ELSE NoEfficiency

RECURSIVE ScanBuiltInScale(_, _)
ScanBuiltInScale(scale, efficiency_value) ==
    IF scale = <<>> THEN 0
    ELSE IF efficiency_value.num * 1000
            >= Head(scale).threshold * efficiency_value.den
         THEN Head(scale).pct
         ELSE ScanBuiltInScale(Tail(scale), efficiency_value)

\* metrics.calc_perf_points_from_efficiency
calc_perf_points_from_efficiency(efficiency_value, max_points) ==
    IF ~efficiency_value.defined THEN 0
    ELSE LET percent == ScanBuiltInScale(EFFICIENCY_SCALE, efficiency_value)
         IN  Round2(IF max_points > 0 THEN max_points * percent ELSE 0)

\* the eff_num_proc the entry point reads from the configuration, as the
\* board hands it to its tasks
ConfiguredProcs(b) ==
    IF Len(b.thread_tasks) = 0 THEN 1 ELSE b.thread_tasks[1].eff_num_proc

\* the body of the loop of build_threads_rows over THREAD_TASK_TYPES: the
\* cell of one task, and the points it adds to the total of the row
LegacyCell(b, folder, task_type) ==
    LET points_info == b.thread_tasks
        status == folder.statuses[task_type]
        sol == get_solution_points_and_style(task_type, status, points_info)
        plag == check_plagiarism_and_calculate_penalty(
                    folder, task_type, sol.points,
                    IF Len(points_info) = 0 THEN 0
                    ELSE points_info[1].copy_coeff)
        entries == ConfiguredEntry(points_info, task_type)
        deadline_penalty ==
            calculate_deadline_penalty(
                status,
                IF entries = {} THEN NoInstant
                ELSE points_info[CHOOSE i \in entries : TRUE].deadline.due,
                folder.commit[task_type])
        metrics ==
            calculate_performance_metrics(
                folder.perf_entry[task_type], ConfiguredProcs(b), task_type,
                folder.perf_entry["seq"])
        eff_val == DisplayedEfficiency(metrics.efficiency)
        perf_points ==
            IF task_type = "seq" THEN 0
            ELSE calc_perf_points_from_efficiency(
                     eff_val, find_performance_max(points_info, task_type))
        report_points ==
            IF folder.report THEN Points(find_report_max(points_info, task_type))
            ELSE 0
    IN  IF IsRaised(sol) THEN Raised
        ELSE [cell |->
                [solution_points |-> sol.points,
                 solution_class |-> SolutionClass(status),
                 performance_points |->
                     IF task_type # "seq" /\ eff_val.defined
                     THEN Format2(perf_points) ELSE Placeholder,
                 acceleration |->
                     IF task_type = "seq" THEN Placeholder
                     ELSE metrics.acceleration,
                 efficiency |->
                     IF task_type = "seq" THEN Placeholder
                     ELSE metrics.efficiency,
                 deadline_penalty |-> deadline_penalty,
                 copy_penalty |-> plag.penalty,
                 copy_class |->
                     IF plag.is_plagiarised \/ status = "disabled"
                     THEN "cell-warning" ELSE "",
                 report_points |-> report_points,
                 report_class |->
                     IF report_points # 0 THEN "cell-success" ELSE ""],
              added |-> sol.points + perf_points + report_points
                        + plag.penalty]

RECURSIVE SumAdded(_, _, _)
SumAdded(b, folder, i) ==
    IF i > Len(THREAD_TASK_TYPES) THEN 0
    ELSE LegacyCell(b, folder, THREAD_TASK_TYPES[i]).added
         + SumAdded(b, folder, i + 1)

\* the row builder.build_threads_rows makes of one folder (its cells and its
\* total; the name and the variant shown are left out), or the error raised
LegacyRow(b, folder) ==
    IF \E i \in 1..Len(THREAD_TASK_TYPES) :
           IsRaised(LegacyCell(b, folder, THREAD_TASK_TYPES[i]))
    THEN Raised
    ELSE [cells |-> [n \in {THREAD_TASK_TYPES[i] :
                               i \in 1..Len(THREAD_TASK_TYPES)} |->
                        LegacyCell(b, folder, n).cell],
          total |-> SumAdded(b, folder, 1)]

NotBuilt == [built |-> FALSE]

\* the rows, or the error that left the builder
builder_build_threads_rows(b, folders) ==
    LET made == [i \in 1..Len(folders) |-> LegacyRow(b, folders[i])]
    IN  IF \E i \in 1..Len(folders) : IsRaised(made[i])
        THEN [built |-> TRUE, raised |-> TRUE]
        ELSE [built |-> TRUE, raised |-> FALSE, made |-> made]

\* builder.build_threads_rows over the folders of the thread track, in
\* ascending name order, with the configuration of the board
LegacyBuildThreadsRows ==
    /\ board.configured
    /\ ~legacy_rows.built
    /\ Len(status_map) > 0
    /\ legacy_rows' = builder_build_threads_rows(board, status_map)
    /\ UNCHANGED <<threadVars, processVars, boardVars, assemblyVars,
                   scaleVars, deadlineVars>>

-----------------------------------------------------------------------------
(* Inputs *)

\* the due instant of the task that has one: day 100, 23:59:00
DueAt == 100 * SecondsPerDay + 23 * SecondsPerHour + 59 * 60

\* seconds between the due instant and the commit
CommitDeltas ==
    {-SecondsPerDay - 1, -1, 0, 1}
    \cup {k * SecondsPerDay + e :
             k \in 1..MaxDaysLate, e \in {-1, 0, 23 * SecondsPerHour}}

CommitTimes == {NoInstant} \cup {Instant(DueAt + d) : d \in CommitDeltas}

Pair(threshold, pct) == [threshold |-> threshold, pct |-> pct]
\* [(0.5, 1.0), (0.25, 0.5)], the same pairs in ascending order, and no scale
ExampleScale == <<Pair(500, 1000), Pair(250, 500)>>
AscendingScale == <<Pair(250, 500), Pair(500, 1000)>>
Scales == {ExampleScale, AscendingScale, <<>>}

\* copy coefficients in [0, 1]: 0, 0.125, 0.5, 1
CopyCoeffs == {0, 125, 500, 1000}

GoodTimes == {Seconds(2), Seconds(4), Seconds(8), Seconds(16)}
Times == BadTimes \cup GoodTimes

ThreadNames == {"seq", "omp"}

\* One case = a task and the facts of one folder.  Three families, each the
\* full product of the inputs one group of scoring rules reads, the other
\* inputs at the values of the worked example of the course (omp, S = 20,
\* A = 10, 4 processors, seq 8 s):
\*   points:   budgets, coefficient, status, report, copy flag
\*   speed:    name, performance budget, processors, scale, both times
\*   lateness: due instant, status, commit time (for the example task and
\*             for a task worth 1 point)
PointCases ==
    { [task |-> ThreadTask(name, s, 10, r, DeadlineInfo(Instant(DueAt)), c,
                           4, ExampleScale),
       sub |-> ThreadSubmission(name, st, Path(commit), perf, Seconds(8),
                                rep, cp)] :
        name \in ThreadNames, s \in {0, 5, 10, 20}, r \in {0, 5},
        c \in CopyCoeffs, st \in Statuses, rep \in BOOLEAN, cp \in BOOLEAN,
        perf \in {NoTime, Seconds(2), Seconds(16)},
        commit \in {NoInstant, Instant(DueAt + MaxDaysLate * SecondsPerDay)} }

SpeedCases ==
    { [task |-> ThreadTask(name, 20, a, 0, DeadlineInfo(NoInstant), 500,
                           n, scale),
       sub |-> ThreadSubmission(name, st, Path(NoInstant), perf, seq,
                                FALSE, FALSE)] :
        name \in ThreadNames, a \in {0, 10}, n \in {0, 1, 4},
        scale \in Scales, st \in {"done", None},
        perf \in Times, seq \in Times }

LateCases ==
    { [task |-> ThreadTask(name, b.s, b.a, b.r, DeadlineInfo(due), 500,
                           4, ExampleScale),
       sub |-> ThreadSubmission(name, st, Path(commit), Seconds(2),
                                Seconds(8), rep, cp)] :
        name \in ThreadNames,
        b \in {[s |-> 20, a |-> 10, r |-> 5], [s |-> 1, a |-> 0, r |-> 0]},
        due \in {NoInstant, Instant(DueAt)},
        st \in Statuses, commit \in CommitTimes,
        rep \in BOOLEAN, cp \in BOOLEAN }

ThreadCases == PointCases \cup SpeedCases \cup LateCases

ProcessPointCases ==
    { [task |-> ProcessTask("mpi_task_1", [S |-> ms, A |-> 10],
                            [S |-> ss, A |-> 0], r, 1,
                            DeadlineInfo(Instant(DueAt)), c, 4, ExampleScale),
       sub |-> ProcessSubmission(1, sst, mst, NoWorkDir, Seconds(8), mt,
                                 rep, scp, mcp)] :
        ms \in {0, 10}, ss \in {0, 5}, r \in {0, 5}, c \in CopyCoeffs,
        sst \in Statuses, mst \in Statuses, mt \in {NoTime, Seconds(2)},
        rep \in BOOLEAN, scp \in BOOLEAN, mcp \in BOOLEAN }

ProcessSpeedCases ==
    { [task |-> ProcessTask("mpi_task_1", [S |-> 10, A |-> a],
                            [S |-> 5, A |-> 0], 0, 1,
                            DeadlineInfo(NoInstant), 500, n, scale),
       sub |-> ProcessSubmission(1, sst, mst, NoWorkDir, st, mt,
                                 FALSE, FALSE, FALSE)] :
        a \in {0, 10}, n \in {0, 4}, scale \in Scales,
        sst \in {"done", None}, mst \in {"done", None},
        st \in Times, mt \in Times }

ProcessCommitTimes ==
    {NoInstant, Instant(DueAt + 1), Instant(DueAt + SecondsPerDay),
     Instant(DueAt + MaxDaysLate * SecondsPerDay)}

ProcessLateCases ==
    { [task |-> ProcessTask("mpi_task_1", [S |-> 10, A |-> 10],
                            [S |-> 5, A |-> 0], 5, 1,
                            DeadlineInfo(due), 500, 4, ExampleScale),
       sub |-> ProcessSubmission(1, sst, mst, wd, Seconds(8), Seconds(2),
                                 TRUE, FALSE, FALSE)] :
        due \in {NoInstant, Instant(DueAt)},
        sst \in Statuses, mst \in Statuses,
        wd \in {NoWorkDir} \cup {WorkDir(sc, mc) : sc \in ProcessCommitTimes,
                                                    mc \in ProcessCommitTimes} }

ProcessCases == ProcessPointCases \cup ProcessSpeedCases \cup ProcessLateCases

\* the thread tasks of the board: seq and omp, as in the worked example,
\* with or without report points
BoardConfigs ==
    { Scoreboard(<<ThreadTask("seq", 10, 0, rs, DeadlineInfo(due), 500, 4,
                              ExampleScale),
                   ThreadTask("omp", 20, 10, ro, DeadlineInfo(due), 500, 4,
                              ExampleScale)>>, 2, "salt") :
        rs \in {0, 5}, ro \in {0, 5}, due \in {NoInstant, Instant(DueAt)} }

Infos ==
    { [last_name |-> l, first_name |-> "Ivan", middle_name |-> "",
       group_number |-> Group("G1", FALSE, u)] :
        l \in {"Ivanov", "Petrov"}, u \in BOOLEAN }

\* discover_tasks gives every implementation found in a folder the same
\* status: disabled when the folder name ends in _disabled, done otherwise
FolderStatuses ==
    { [n \in ThreadNames |-> IF n \in found THEN st ELSE None] :
        found \in (SUBSET ThreadNames) \ {{}}, st \in {"done", "disabled"} }

Folders ==
    { Folder(info, sts, [seq |-> st, omp |-> pt], rep, fl,
             [n \in ThreadNames |-> commit]) :
        info \in {i \in Infos : i.last_name = "Ivanov" /\ i.group_number.upper},
        sts \in FolderStatuses,
        st \in {NoTime, Seconds(8)},
        pt \in {NoTime, Seconds(2), Seconds(4), Seconds(16)},
        rep \in BOOLEAN, fl \in SUBSET ThreadNames,
        commit \in {NoInstant, Instant(DueAt + MaxDaysLate * SecondsPerDay)} }

\* a second folder, of another student, next to the first
SecondFolders ==
    { Folder(info, [seq |-> "done", omp |-> st], 
             [seq |-> Seconds(8), omp |-> Seconds(4)], rep, {},
             [n \in ThreadNames |-> NoInstant]) :
        info \in Infos, st \in {"done", None}, rep \in BOOLEAN }

StatusMaps ==
    {<<f>> : f \in Folders}
    \cup {<<f, g>> : f \in {h \in Folders : h.flagged = {}
                                            /\ ~h.commit["seq"].known
                                            /\ h.perf_entry["seq"] # NoTime},
                     g \in SecondFolders}

\* the process tasks of the board: none configured, two named after their
\* place in the list, or the same two names in the other order
ProcessTaskConfigs ==
    { <<>>,
      <<ProcessTask("mpi_task_1", [S |-> 10, A |-> 10], [S |-> 5, A |-> 0],
                    5, 3, DeadlineInfo(NoInstant), 500, 4, ExampleScale),
        ProcessTask("mpi_task_2", [S |-> 10, A |-> 10], [S |-> 5, A |-> 0],
                    5, 2, DeadlineInfo(NoInstant), 500, 4, ExampleScale)>>,
      <<ProcessTask("mpi_task_2", [S |-> 10, A |-> 10], [S |-> 5, A |-> 0],
                    5, 3, DeadlineInfo(NoInstant), 500, 4, ExampleScale),
        ProcessTask("mpi_task_1", [S |-> 10, A |-> 10], [S |-> 5, A |-> 0],
                    5, 2, DeadlineInfo(NoInstant), 500, 4, ExampleScale)>> }

\* the student block of info.json, with a task_number
StudentInfo(last, middle, group, number) ==
    [last_name |-> last, first_name |-> "Ivan", middle_name |-> middle,
     group_number |-> group, task_number |-> number]

\* Student blocks: one student in two spellings of the group, with the
\* middle name set, null or left out; another student without task_number;
\* task numbers that are no integer or out of range; and no block at all
ProcessInfos ==
    { StudentInfo("Ivanov", "Ivanovich", Group("G1", FALSE, TRUE),
                  JsonNumber("int", 1)),
      StudentInfo("Ivanov", "Ivanovich", Group("G1", TRUE, FALSE),
                  JsonNumber("int", 2)),
      StudentInfo("Ivanov", Null, Group("G1", FALSE, TRUE),
                  JsonNumber("int", 1)),
      StudentInfo("Ivanov", Null, Group("G1", FALSE, TRUE),
                  JsonNumber("int", 2)),
      [last_name |-> "Ivanov", first_name |-> "Ivan",
       group_number |-> Group("G1", FALSE, TRUE),
       task_number |-> JsonNumber("digits", 2)],
      [last_name |-> "Petrov", first_name |-> "Ivan",
       middle_name |-> "Ivanovich",
       group_number |-> Group("G1", FALSE, TRUE)],
      StudentInfo("Petrov", "Ivanovich", Group("G1", FALSE, TRUE),
                  JsonNumber("float", 15)),
      StudentInfo("Petrov", "Ivanovich", Group("G1", FALSE, TRUE),
                  JsonNumber("text", 0)),
      StudentInfo("Petrov", "Ivanovich", Group("G1", FALSE, TRUE),
                  JsonNumber("null", 0)),
      StudentInfo("Petrov", "Ivanovich", Group("G1", FALSE, TRUE),
                  JsonNumber("int", 3)),
      StudentInfo("Petrov", "Ivanovich", Group("G1", FALSE, TRUE),
                  JsonNumber("int", 0)),
      [key \in {} |-> ""] }

\* the blocks of folders that are attached without an error of their own
PlainInfos ==
    {info \in ProcessInfos :
        "task_number" \in DOMAIN info =>
            info.task_number \in {JsonNumber("int", 1), JsonNumber("int", 2)}}

\* a process folder: both implementations done, timed 8 s and 2 s, not
\* flagged, no commit time; a report for the folders of task 1
ProcessFolderOf(dir_name, info) ==
    ProcessFolder(dir_name, info, [seq |-> "done", mpi |-> "done"],
                  [seq |-> Seconds(8), mpi |-> Seconds(2)],
                  dict_get(info, "task_number", JsonNumber("int", 1)).val = 1,
                  {}, [seq |-> NoInstant, mpi |-> NoInstant])

\* the process folders in the order the directory is enumerated: up to
\* three folders a, b, c
ProcessDirs ==
    {<<>>}
    \cup {<<ProcessFolderOf("a", i)>> : i \in ProcessInfos}
    \cup {<<ProcessFolderOf(n[1], i), ProcessFolderOf(n[2], j)>> :
              n \in {<<"a", "b">>, <<"b", "a">>},
              i \in ProcessInfos, j \in ProcessInfos}
    \cup {<<ProcessFolderOf("a", i), ProcessFolderOf("b", j),
             ProcessFolderOf("c", k)>> :
              i \in PlainInfos, j \in PlainInfos, k \in PlainInfos}

\* the board of the assembly: seq and omp as in the worked example
AssemblyBoard ==
    Scoreboard(<<ThreadTask("seq", 10, 0, 0, DeadlineInfo(NoInstant), 500, 4,
                            ExampleScale),
                 ThreadTask("omp", 20, 10, 5, DeadlineInfo(NoInstant), 500, 4,
                            ExampleScale)>>, 2, "salt")

\* the thread folders of the assembly: none, one, two of one student (in
\* two spellings of the group), two of two students, and folders without
\* metadata or with a null name, alone, twice and beside another student
AssemblyThreadFolder(last, upper) ==
    Folder([last_name |-> last, first_name |-> "Ivan", middle_name |-> "",
            group_number |-> Group("G1", FALSE, upper)],
           [seq |-> "done", omp |-> "done"],
           [seq |-> Seconds(8), omp |-> Seconds(2)], TRUE, {},
           [n \in ThreadNames |-> NoInstant])

\* a thread folder without info.json, and one whose block has a null
\* middle name
AssemblyFolderWithout ==
    [AssemblyThreadFolder("Ivanov", TRUE) EXCEPT !.info = [key \in {} |-> ""]]

AssemblyFolderNull ==
    [AssemblyThreadFolder("Ivanov", TRUE) EXCEPT !.info.middle_name = Null]

AssemblyStatusMaps ==
    { <<>>,
      <<AssemblyThreadFolder("Ivanov", TRUE)>>,
      <<AssemblyThreadFolder("Ivanov", TRUE),
        AssemblyThreadFolder("Ivanov", FALSE)>>,
      <<AssemblyThreadFolder("Ivanov", TRUE),
        AssemblyThreadFolder("Petrov", TRUE)>>,
      <<AssemblyFolderWithout>>,
      <<AssemblyFolderWithout, AssemblyFolderWithout>>,
      <<AssemblyThreadFolder("Ivanov", TRUE), AssemblyFolderWithout>>,
      <<AssemblyFolderNull, AssemblyFolderNull>>,
      <<AssemblyThreadFolder("Ivanov", TRUE), AssemblyFolderNull>> }

\* the salts for which the variant hash raises: none, those of the thread
\* track and of process task 1, or that of process task 2
HashFailures ==
    { {}, {Repo("salt", 0), Repo("salt", 1)}, {Repo("salt", 2)} }

\* the cases of the cache: the lateness families of both tracks
CacheThreadCases == LateCases
CacheProcessCases == ProcessLateCases

\* a JSON number in thousandths
Number(v) == TimeVal("num", v)

\* thresholds 0.25 and 0.5 or text; percents -0.5, 0, 0.375, 0.5, 1 or null
RawEntries ==
    {ScaleEntry(t, p) :
        t \in {Number(250), Number(500), TimeVal("text", 0)},
        p \in {Number(-500), Number(0), Number(375), Number(500),
               Number(1000), NoTime}}

\* configured lists of at most MaxScaleLen entries, in any order
MaxScaleLen == 2
RawScales ==
    UNION {[1..n -> RawEntries] : n \in 0..MaxScaleLen}

PerfBudgets == {0, 5, 10}

\* the configured tasks of a track are at most this many
MaxTasks == 4

\* the names of the thread tasks, in the order of points_info
TaskNamePool == <<"seq", "omp", "tbb", "stl", "all", "ext">>

EmptyDict == [key \in {} |-> 0]

\* threads_base / processes_base: nothing (the defaults apply), or the four
\* fields of a window: 1-6 March (5 days), 1 March alone, 1-31 December,
\* 1-15 January, and a window that ends before it starts
Window(start_month, start_day, end_month, end_day) ==
    [key \in {"start_month", "start_day", "end_month", "end_day"} |->
        IF key = "start_month" THEN start_month
        ELSE IF key = "start_day" THEN start_day
        ELSE IF key = "end_month" THEN end_month ELSE end_day]

BaseWindows ==
    {EmptyDict, Window(3, 1, 3, 6), Window(3, 1, 3, 1), Window(12, 1, 12, 31),
     Window(1, 1, 1, 15), Window(5, 15, 2, 1)}

\* what deadlines.json holds for one task: 1 nothing, 2 twenty days
\* earlier, 3 twenty-five days later, 4 a text, 5 a number that is not an
\* integer
NoDeadlineText == OtherShift("str", "no deadline")

OverrideKinds == 1..5

ThreadOverride(kind) ==
    IF kind = 2 THEN IntShift(-20)
    ELSE IF kind = 3 THEN IntShift(25)
    ELSE IF kind = 4 THEN NoDeadlineText
    ELSE OtherShift("float", "2.5")

\* the threads dict: task name -> override
ThreadShifts(names, kinds) ==
    [name \in {names[i] : i \in {j \in 1..Len(names) : kinds[j] # 1}} |->
        ThreadOverride(kinds[CHOOSE i \in 1..Len(names) : names[i] = name])]

\* the processes dict: the override under "mpi_task_<i>" (kinds 2 and 5),
\* under "task_<i>" (kind 3), or a text under "task_<i>" with an integer
\* under "mpi_task_<i>", which the first key hides (kind 4)
ProcessShifts(count, kinds) ==
    LET under_task == {i \in 1..count : kinds[i] \in {3, 4}}
        under_mpi == {i \in 1..count : kinds[i] \in {2, 4, 5}}
    IN  [key \in {task_key(i) : i \in under_task}
                 \cup {mpi_task_key(i) : i \in under_mpi} |->
            IF \E i \in under_task : key = task_key(i)
            THEN ThreadOverride(
                     kinds[CHOOSE i \in under_task : key = task_key(i)])
            ELSE LET i == CHOOSE j \in under_mpi : key = mpi_task_key(j)
                 IN  IF kinds[i] = 4 THEN IntShift(25)
                     ELSE ThreadOverride(kinds[i])]

DeadlineShifts(leap, names, kinds, base) ==
    [leap |-> leap, names |-> names,
     threads |-> ThreadShifts(names, kinds), threads_base |-> base,
     processes |-> ProcessShifts(Len(names), kinds), processes_base |-> base]

NoShifts == DeadlineShifts(FALSE, <<>>, <<>>, EmptyDict)

DeadlineConfigs ==
    {DeadlineShifts(leap, SubSeq(TaskNamePool, 1, Len(kinds)), kinds, base) :
        leap \in BOOLEAN, base \in BaseWindows,
        kinds \in UNION {[1..n -> OverrideKinds] : n \in 0..MaxTasks}}

-----------------------------------------------------------------------------
(* Specification *)

ScaleIdle ==
    /\ raw_scale = <<>>
    /\ board_scale = NotParsed
    /\ perf_budget = 0
    /\ points_of = {}

DeadlineIdle ==
    /\ deadline_shifts = NoShifts
    /\ deadlines = NotComputed
    /\ last_penalty = NotAsked

LegacyIdle == legacy_rows = NotBuilt

ConfigIdle == ScaleIdle /\ DeadlineIdle /\ LegacyIdle

AssemblyIdle ==
    /\ process_tasks = <<>>
    /\ processes_dirs = <<>>
    /\ process_students = <<>>
    /\ run = NotRun
    /\ process_rows = <<>>
    /\ hash_raises = {}

ThreadIdle ==
    /\ thread_task = NoTask
    /\ thread_folder = NoSubmission
    /\ thread_submissions = NoSubmission
    /\ task_scores = NotCached
    /\ thread_call = NeverCalled

ProcessIdle ==
    /\ process_task = NoTask
    /\ process_folder = NoSubmission
    /\ process_submissions = NoSubmission
    /\ process_scores = NotCached
    /\ process_call = NeverCalled

BoardIdle ==
    /\ board = NoBoard
    /\ status_map = <<>>
    /\ thread_students = <<>>
    /\ rows = <<>>

\* a fresh Student (no submission, nothing cached) and one thread task
ThreadInit ==
    /\ \E c \in ThreadCases :
          /\ thread_task = c.task
          /\ thread_folder = c.sub
    /\ thread_submissions = NoSubmission
    /\ task_scores = NotCached
    /\ thread_call = NeverCalled
    /\ ProcessIdle
    /\ BoardIdle
    /\ AssemblyIdle
    /\ ConfigIdle

\* a fresh Student and one process task
ProcessInit ==
    /\ \E c \in ProcessCases :
          /\ process_task = c.task
          /\ process_folder = c.sub
    /\ process_submissions = NoSubmission
    /\ process_scores = NotCached
    /\ process_call = NeverCalled
    /\ ThreadIdle
    /\ BoardIdle
    /\ AssemblyIdle
    /\ ConfigIdle

\* a Scoreboard just constructed, and the thread folders discovered on disk
BoardInit ==
    /\ board \in BoardConfigs
    /\ status_map \in StatusMaps
    /\ thread_students = <<>>
    /\ rows = <<>>
    /\ ThreadIdle
    /\ ProcessIdle
    /\ AssemblyIdle
    /\ ConfigIdle

Init == ThreadInit \/ ProcessInit \/ BoardInit

Next ==
    \/ AddThreadSubmission
    \/ ScoreThread
    \/ AddProcessSubmission
    \/ ScoreProcess
    \/ BuildThreadStudents
    \/ BuildThreadsRows

Spec == Init /\ [][Next]_vars

\* One Student to whom submissions are added, again and again, and whose
\* score is asked for at any time
CacheInit ==
    \/ /\ \E c \in CacheThreadCases :
              /\ thread_task = c.task
              /\ thread_folder = c.sub
        /\ thread_submissions = NoSubmission
        /\ task_scores = NotCached
        /\ thread_call = NeverCalled
        /\ ProcessIdle
        /\ BoardIdle
        /\ AssemblyIdle
        /\ ConfigIdle
    \/ /\ \E c \in CacheProcessCases :
              /\ process_task = c.task
              /\ process_folder = c.sub
        /\ process_submissions = NoSubmission
        /\ process_scores = NotCached
        /\ process_call = NeverCalled
        /\ ThreadIdle
        /\ BoardIdle
        /\ AssemblyIdle
        /\ ConfigIdle

CacheNext ==
    \/ AddThreadSubmission
    \/ ReplaceThreadSubmission
    \/ ScoreThread
    \/ AddProcessSubmission
    \/ ReplaceProcessSubmission
    \/ ScoreProcess

CacheSpec == CacheInit /\ [][CacheNext]_vars

\* A run of from_files over the folders discovered on disk, and the rows
\* built from the board it returns
AssemblyInit ==
    /\ board = AssemblyBoard
    /\ status_map \in AssemblyStatusMaps
    /\ thread_students = <<>>
    /\ rows = <<>>
    /\ process_tasks \in ProcessTaskConfigs
    /\ processes_dirs \in ProcessDirs
    /\ process_students = <<>>
    /\ run = NotRun
    /\ process_rows = <<>>
    /\ hash_raises \in HashFailures
    /\ ThreadIdle
    /\ ProcessIdle
    /\ ConfigIdle

AssemblyNext ==
    \/ FromFiles
    \/ BuildThreadsRows
    \/ BuildProcessRows

AssemblySpec == AssemblyInit /\ [][AssemblyNext]_vars

\* A board whose efficiency scale is read from the configuration, and a
\* task of that board asked for the points of one efficiency after another
ScaleInit ==
    /\ raw_scale \in RawScales
    /\ board_scale = NotParsed
    /\ perf_budget \in PerfBudgets
    /\ points_of = {}
    /\ ThreadIdle
    /\ ProcessIdle
    /\ BoardIdle
    /\ AssemblyIdle
    /\ DeadlineIdle
    /\ LegacyIdle

ScaleNext ==
    \/ ParseEfficiencyScale
    \/ EfficiencyToPoints

ScaleSpec == ScaleInit /\ [][ScaleNext]_vars

\* A board whose deadlines are computed from deadlines.json for the tasks
\* of one track, and submissions scored against them
DeadlineInit ==
    /\ deadline_shifts \in DeadlineConfigs
    /\ deadlines = NotComputed
    /\ last_penalty = NotAsked
    /\ ThreadIdle
    /\ ProcessIdle
    /\ BoardIdle
    /\ AssemblyIdle
    /\ ScaleIdle
    /\ LegacyIdle

DeadlineNext ==
    \/ ComputeThreadsDeadlines
    \/ ComputeProcessDeadlines
    \/ DeadlinePenalty

DeadlineSpec == DeadlineInit /\ [][DeadlineNext]_vars

\* the points configuration of the entry point: the five thread tasks, the
\* built-in scale as the configured one
LegacyBoards ==
    { Scoreboard([i \in 1..Len(THREAD_TASK_TYPES) |->
                     ThreadTask(THREAD_TASK_TYPES[i], s,
                                IF THREAD_TASK_TYPES[i] = "seq" THEN 0
                                ELSE 10,
                                5, DeadlineInfo(NoInstant), c, procs,
                                EFFICIENCY_SCALE)],
                 3, "salt") :
          s \in {5, 10}, c \in {125, 500}, procs \in {1, 4} }

\* one folder with seq and omp implementations, done or disabled, in or out
\* of the copying lists, with or without a report and benchmark times
LegacyFolders ==
    { Folder([last_name |-> "Ivanov", first_name |-> "Ivan",
              middle_name |-> "Ivanovich",
              group_number |-> Group("G1", FALSE, TRUE)],
             [n \in {"seq", "omp", "tbb", "stl", "all"} |->
                 IF n \in {"seq", "omp"} THEN st ELSE None],
             [n \in {"seq", "omp", "tbb", "stl", "all"} |->
                 IF n = "seq" THEN seq_time
                 ELSE IF n = "omp" THEN omp_time ELSE NoTime],
             rep, fl,
             [n \in {"seq", "omp", "tbb", "stl", "all"} |-> NoInstant]) :
          st \in {"done", "disabled"},
          seq_time \in {NoTime, Seconds(5), Seconds(8)},
          omp_time \in {NoTime, Seconds(1), Seconds(2), Seconds(3)},
          rep \in BOOLEAN, fl \in SUBSET {"seq", "omp"} }

\* The thread track of one folder, scored by the board and by the row
\* builder of the entry point
LegacyInit ==
    /\ board \in LegacyBoards
    /\ \E f \in LegacyFolders : status_map = <<f>>
    /\ thread_students = <<>>
    /\ rows = <<>>
    /\ legacy_rows = NotBuilt
    /\ ThreadIdle
    /\ ProcessIdle
    /\ AssemblyIdle
    /\ ScaleIdle
    /\ DeadlineIdle

LegacyNext ==
    \/ BuildThreadStudents
    \/ BuildThreadsRows
    \/ LegacyBuildThreadsRows

LegacySpec == LegacyInit /\ [][LegacyNext]_vars

-----------------------------------------------------------------------------
(* Properties *)

\* the thread task has been scored: TSub is the submission calculate_score
\* was given, TScore the score it returned
ThreadScored == task_scores.cached /\ thread_call.called
TSub == thread_call.submission
TScore == task_scores.score

ProcessScored == process_scores.cached /\ process_call.called
PSub == process_call.submission
PScore == process_scores.score

Granted(status) == status \in {"done", "disabled"}

\* the components of a TaskScore that enter its total, added exactly
ExactSum(s) ==
    s.solution_points + s.performance_points + s.report_points
    + s.copy_penalty

Abs(x) == IF x >= 0 THEN x ELSE -x

\* C1: for a ThreadTask and for each side of a ProcessTask, the solution
\* points are the side's budget S when the status is done or disabled and 0
\* for every other status (absent included); with S > 0 they equal S exactly
\* when the status is done or disabled.
C1_SolutionPoints ==
    /\ (ThreadScored /\ TSub.present) =>
          /\ TScore.solution_points =
                 (IF Granted(TSub.status)
                  THEN 1000 * thread_task.s_points ELSE 0)
          /\ thread_task.s_points > 0 =>
                 (TScore.solution_points = 1000 * thread_task.s_points
                      <=> Granted(TSub.status))
    /\ (ProcessScored /\ PSub.present) =>
          /\ PScore.seq.solution_points =
                 (IF Granted(PSub.seq_status)
                  THEN 1000 * process_task.seq_points.S ELSE 0)
          /\ PScore.mpi.solution_points =
                 (IF Granted(PSub.mpi_status)
                  THEN 1000 * process_task.mpi_points.S ELSE 0)

C1_Witness ==
    /\ ThreadScored
    /\ TSub.present
    /\ TSub.status = "disabled"
    /\ thread_task.s_points = 20
    /\ TScore.solution_points = 20000

\* what C2 says of one submission side: coefficient c, earned points sol,
\* copy flag, and the penalty the score carries
CopyRule(c, sol, copied, penalty) ==
    /\ 1000 * penalty = (IF copied THEN -(c * sol) ELSE 0)
    /\ penalty <= 0
    /\ sol = 0 => penalty = 0
    /\ (copied /\ c = 500 /\ sol = 10000) => penalty = -5000

\* C2: copy_penalty = -(copy_coefficient x solution_points) when the
\* submission is flagged plagiarised and 0 otherwise; it is 0 whenever the
\* solution points are 0, never positive, and -5 for coefficient 0.5 and 10
\* solution points.
C2_CopyPenalty ==
    /\ (ThreadScored /\ TSub.present) =>
          CopyRule(thread_task.copy_coeff, TScore.solution_points,
                   TSub.copied, TScore.copy_penalty)
    /\ (ProcessScored /\ PSub.present) =>
          /\ CopyRule(process_task.copy_coeff, PScore.seq.solution_points,
                      PSub.seq_copied, PScore.seq.copy_penalty)
          /\ CopyRule(process_task.copy_coeff, PScore.mpi.solution_points,
                      PSub.mpi_copied, PScore.mpi.copy_penalty)

C2_Witness ==
    /\ ThreadScored
    /\ TSub.present
    /\ TSub.copied
    /\ thread_task.copy_coeff = 500
    /\ TScore.solution_points = 10000
    /\ TScore.copy_penalty = -5000

\* whole days in d seconds (d >= 0): the k with k days <= d < k + 1 days
WholeDays(d) ==
    CHOOSE k \in 0..(MaxDaysLate + 2) :
        k * SecondsPerDay <= d /\ d < (k + 1) * SecondsPerDay

\* what C3 says of one implementation: its status, its path, the task's due
\* instant and the penalty the score carries
DeadlineRule(due, path, status, penalty) ==
    LET late == path.commit.at - due.at
    IN  /\ penalty =
              (IF status = "done" /\ due.known /\ path.known
                     /\ path.commit.known /\ late > 0
               THEN -1000 * WholeDays(late) ELSE 0)
        /\ (status = "done" /\ due.known /\ path.known /\ path.commit.known)
              => /\ late = 1 => penalty = 0
                 /\ late = SecondsPerDay => penalty = -1000
                 /\ late = SecondsPerDay + 23 * SecondsPerHour
                        => penalty = -1000

\* C3: the deadline penalty is 0 unless the status is exactly done, the task
\* has a due instant and the commit time of the implementation path is
\* known; then it is 0 for a commit at or before the due instant and
\* otherwise minus the whole days elapsed since it (floor), not clamped to
\* the budget: 1 second, 1 day, 1 day 23 hours late give 0, -1, -1.
C3_DeadlinePenalty ==
    /\ (ThreadScored /\ TSub.present) =>
          DeadlineRule(thread_task.deadline.due, TSub.impl_path,
                       TSub.status, TScore.deadline_penalty)
    /\ (ProcessScored /\ PSub.present) =>
          /\ DeadlineRule(process_task.deadline.due,
                          ProcessSubmission_impl_path(PSub, "seq"),
                          PSub.seq_status, PScore.seq.deadline_penalty)
          /\ DeadlineRule(process_task.deadline.due,
                          ProcessSubmission_impl_path(PSub, "mpi"),
                          PSub.mpi_status, PScore.mpi.deadline_penalty)

\* a task worth 1 point, committed 1 day 23 hours late: penalty -1; the same
\* task 3 days late loses more than it is worth (see C3_Unclamped)
C3_Witness ==
    /\ ThreadScored
    /\ TSub.present
    /\ TSub.status = "done"
    /\ thread_task.deadline.due.known
    /\ TSub.impl_path.commit =
           Instant(DueAt + SecondsPerDay + 23 * SecondsPerHour)
    /\ TScore.deadline_penalty = -1000

C3_Unclamped ==
    /\ ThreadScored
    /\ TSub.present
    /\ -TScore.deadline_penalty > 1000 * thread_task.max_points

\* indices of the pairs of the scale whose threshold num/den meets
Matching(scale, num, den) ==
    {i \in 1..Len(scale) : num * 1000 >= scale[i].threshold * den}

\* budget x percent of the first matching pair, 0 when none matches
FirstMatchPoints(scale, num, den, budget) ==
    LET m == Matching(scale, num, den)
    IN  IF m = {} THEN 0
        ELSE LET i == CHOOSE j \in m : \A k \in m : j <= k
             IN  Round2(budget * scale[i].pct)

ValidTime(v) == v.kind = "num" /\ v.val > 0

\* C4: for a non-seq ThreadTask with valid positive times (and a processor
\* count of at least 1), efficiency = (seq_time / parallel_time) /
\* efficiency_num_proc, shown with 2 decimals, and the performance points
\* are the performance budget x the percent of the first pair, in the given
\* order, whose threshold the efficiency meets or exceeds, 0 when none does;
\* budget 10, scale [(0.5,1.0),(0.25,0.5)], 4 processors, seq 8 s: 2 s give
\* 10 points (total 30 with solution 20), 16 s give 0 points (total 20).
C4_PerformancePoints ==
    (/\ ThreadScored /\ TSub.present
     /\ thread_task.name # "seq"
     /\ thread_task.eff_num_proc >= 1
     /\ ValidTime(TSub.perf_time) /\ ValidTime(TSub.seq_time)) =>
        LET num == TSub.seq_time.val
            den == TSub.perf_time.val * thread_task.eff_num_proc
            example ==
                /\ thread_task.a_points = 10
                /\ thread_task.s_points = 20
                /\ thread_task.efficiency_scale = ExampleScale
                /\ thread_task.eff_num_proc = 4
                /\ TSub.seq_time.val = 8
                /\ TSub.status = "done"
                /\ ~TSub.copied /\ ~TSub.report_present
        IN  /\ TScore.efficiency.shown
            /\ 2 * Abs(100 * num - TScore.efficiency.centi * den) <= den
            /\ TScore.performance_points =
                   (IF thread_task.a_points <= 0 THEN 0
                    ELSE FirstMatchPoints(thread_task.efficiency_scale,
                                          num, den, thread_task.a_points))
            /\ \A i \in 1..Len(thread_task.efficiency_scale) :
                   (/\ thread_task.a_points > 0
                    /\ 1000 * num =
                          thread_task.efficiency_scale[i].threshold * den
                    /\ \A j \in 1..(i - 1) :
                          1000 * num <
                              thread_task.efficiency_scale[j].threshold * den)
                   => TScore.performance_points =
                          thread_task.a_points
                              * thread_task.efficiency_scale[i].pct
            /\ (example /\ TSub.perf_time.val = 2) =>
                   /\ TScore.performance_points = 10000
                   /\ TaskScore_total(TScore) = 30000
            /\ (example /\ TSub.perf_time.val = 16) =>
                   /\ TScore.performance_points = 0
                   /\ TaskScore_total(TScore) = 20000

\* efficiency exactly at the first threshold (8 s / 4 s / 4 = 0.5)
C4_Witness ==
    /\ ThreadScored
    /\ TSub.present
    /\ thread_task.name = "omp"
    /\ thread_task.a_points = 10
    /\ thread_task.eff_num_proc = 4
    /\ thread_task.efficiency_scale = ExampleScale
    /\ TSub.seq_time = Seconds(8)
    /\ TSub.perf_time = Seconds(4)
    /\ TScore.efficiency = Shown(50)
    /\ TScore.performance_points = 10000

\* C5 as stated: total is exactly solution_points + performance_points +
\* report_points + copy_penalty, and copy_penalty <= 0.
C5_TotalIsExactSum ==
    ThreadScored =>
        /\ TaskScore_total(TScore) = ExactSum(TScore)
        /\ TScore.copy_penalty <= 0

\* C5, amended: total is solution_points + performance_points +
\* report_points + copy_penalty rounded to 2 decimals: a multiple of 0.01
\* within 0.005 of the sum, equal to it when the sum has at most 2 decimals;
\* copy_penalty <= 0; the deadline penalty is not a term of the total.
C5_TotalIsRoundedSum ==
    /\ ThreadScored =>
          /\ TaskScore_total(TScore) % 10 = 0
          /\ 2 * Abs(TaskScore_total(TScore) - ExactSum(TScore)) <= 10
          /\ ExactSum(TScore) % 10 = 0 =>
                 TaskScore_total(TScore) = ExactSum(TScore)
          /\ TScore.copy_penalty <= 0
    /\ ProcessScored =>
          \A side \in {PScore.seq, PScore.mpi} :
              /\ TaskScore_total(side) % 10 = 0
              /\ 2 * Abs(TaskScore_total(side) - ExactSum(side)) <= 10
              /\ ExactSum(side) % 10 = 0 =>
                     TaskScore_total(side) = ExactSum(side)
              /\ side.copy_penalty <= 0

\* S = 5 copied with coefficient 0.125: the sum 4.375 gives the total 4.38,
\* and the submission is late: the deadline penalty is set and left out
C5_Witness ==
    /\ ThreadScored
    /\ TSub.present
    /\ TScore.deadline_penalty < 0
    /\ TScore.copy_penalty = -625
    /\ ExactSum(TScore) = 4375
    /\ TaskScore_total(TScore) = 4380

\* a done, plagiarised submission committed MaxDaysLate days late
HeavilyPenalised ==
    /\ ThreadScored
    /\ TSub.present
    /\ TSub.status = "done"
    /\ TSub.copied
    /\ thread_task.copy_coeff \in 0..1000
    /\ TScore.deadline_penalty = -1000 * MaxDaysLate

C7_ProcessTotal ==
    (ProcessScored /\ PSub.present) =>
        /\ ProcessScore_total(PScore) =
               TaskScore_total(PScore.seq) + TaskScore_total(PScore.mpi)
               + PScore.report_points
        /\ PScore.report_points =
               (IF PSub.report_present
                THEN 1000 * process_task.r_points ELSE 0)
        /\ PScore.seq.report_points = 0
        /\ PScore.mpi.report_points = 0
        /\ PScore.seq.performance_points = 0
        /\ (/\ ValidTime(PSub.mpi_time) /\ ValidTime(PSub.seq_time)
            /\ process_task.mpi_points.A > 0) =>
               PScore.mpi.performance_points =
                   FirstMatchPoints(
                       process_task.efficiency_scale, PSub.seq_time.val,
                       PSub.mpi_time.val * Max(process_task.eff_num_proc, 1),
                       process_task.mpi_points.A)

C7_Witness ==
    /\ ProcessScored
    /\ PSub.present
    /\ PSub.seq_status = "done"
    /\ PSub.mpi_status = "done"
    /\ PSub.report_present
    /\ PScore.report_points = 5000
    /\ PScore.mpi.performance_points = 10000
    /\ PScore.seq.solution_points = 5000
    /\ PScore.mpi.solution_points = 10000
    /\ ProcessScore_total(PScore) = 30000

AllZero(s) ==
    /\ s.solution_points = 0
    /\ s.performance_points = 0
    /\ s.report_points = 0
    /\ s.deadline_penalty = 0
    /\ s.copy_penalty = 0
    /\ TaskScore_total(s) = 0

\* C8: when one side (seq or mpi) of a process submission is absent, that
\* side's sub-score is all-zero, whatever times and flags are recorded.
C8_MissingSideAllZero ==
    (ProcessScored /\ PSub.present) =>
        /\ PSub.seq_status = None => AllZero(PScore.seq)
        /\ PSub.mpi_status = None => AllZero(PScore.mpi)

\* C9: scoring a student who has no submission for the task returns a score
\* whose every component and total is 0, for ThreadTask and ProcessTask.
C9_NoSubmissionScoresZero ==
    /\ (ThreadScored /\ ~TSub.present) => AllZero(TScore)
    /\ (ProcessScored /\ ~PSub.present) =>
          /\ AllZero(PScore.seq)
          /\ AllZero(PScore.mpi)
          /\ PScore.report_points = 0
          /\ ProcessScore_total(PScore) = 0

C9_Witness ==
    /\ ThreadScored
    /\ ~TSub.present
    /\ thread_folder.present
    /\ thread_folder.status = "done"
    /\ thread_task.s_points = 20
    /\ TScore.solution_points = 0

\* C10: in the thread rows built by the Scoreboard, a task for which the
\* student's folder holds no implementation (absent status) scores 0 on
\* every component and has total 0, whatever report file or times exist.
C10_AbsentTaskRowZero ==
    \A i \in 1..Len(rows) :
        \A n \in DOMAIN rows[i].cells :
            status_map[i].statuses[n] = None => AllZero(rows[i].cells[n])

-----------------------------------------------------------------------------
(* Assembly of the process track *)

AssemblyReturned == run.called /\ run.returned
AssemblyAborted == run.called /\ ~run.returned

\* the identity of a folder: the four fields of its student block, the
\* group normalized
FolderIdentity(info) ==
    <<dict_get(info, "last_name", ""), dict_get(info, "first_name", ""),
      dict_get(info, "middle_name", ""),
      normalize_group(dict_get(info, "group_number", EmptyGroup)).text>>

\* the identity of an assembled Student
StudentIdentity(student) ==
    <<student.last_name, student.first_name, student.middle_name,
      student.group_number.text>>

\* the folder has student metadata: some field of its block is there
HasMetadata(folder) == DOMAIN folder.info # {}

\* the folders of processes_dirs that belong to the identity
FoldersOf(identity) ==
    {i \in 1..Len(processes_dirs) :
        /\ HasMetadata(processes_dirs[i])
        /\ FolderIdentity(processes_dirs[i].info) = identity}

\* the student holds the submission made of the folder
Holds(student, folder) ==
    \E n \in DOMAIN student.process_submissions :
        student.process_submissions[n].work_dir.dir_name = folder.dir_name

\* C11: on the process track the folders of one identity (the four fields,
\* the group trimmed and in upper case) are merged into exactly one Student
\* that holds one submission per folder; in the board that is returned no
\* two Students share an identity and no folder's submission is lost.
C11_IdentityMerge ==
    AssemblyReturned =>
        /\ \A i, j \in 1..Len(process_students) :
              i # j => StudentIdentity(process_students[i])
                       # StudentIdentity(process_students[j])
        /\ \A i \in 1..Len(processes_dirs) :
              HasMetadata(processes_dirs[i]) =>
                  \E j \in 1..Len(process_students) :
                      /\ StudentIdentity(process_students[j])
                         = FolderIdentity(processes_dirs[i].info)
                      /\ Holds(process_students[j], processes_dirs[i])
                      /\ Cardinality(DOMAIN process_students[j]
                                                .process_submissions)
                         = Cardinality(FoldersOf(StudentIdentity(
                                                     process_students[j])))

\* the task_number of the folder (1 when the block has none) is an integer,
\* or a string of digits, within 1..number of configured process tasks
TaskNumberOK(folder) ==
    LET number == dict_get(folder.info, "task_number", JsonNumber("int", 1))
    IN  /\ number.kind \in {"int", "digits"}
        /\ number.val \in 1..Len(process_tasks)

\* the error was raised by one of the checks of the task number
TaskNumberError(error) ==
    error.message \in {"Invalid task_number", "task_number out of range",
                       "No process tasks configured"}

\* C12: a process folder whose task_number is not an integer or lies outside
\* 1..number of configured process tasks aborts the run, with an error that
\* names the folder and the student; it is never skipped or attached.
C12_BadTaskNumberAborts ==
    /\ (run.called /\ \E i \in 1..Len(processes_dirs) :
                          ~TaskNumberOK(processes_dirs[i]))
           => AssemblyAborted
    /\ (AssemblyAborted /\ TaskNumberError(run.error))
           => /\ \E i \in 1..Len(processes_dirs) :
                    /\ ~TaskNumberOK(processes_dirs[i])
                    /\ run.error.folder = processes_dirs[i].dir_name
              /\ run.error.student # Nobody

\* the task number the folder claims
ClaimedTask(folder) ==
    dict_get(folder.info, "task_number", JsonNumber("int", 1))

\* two folders of one identity claim the same task number
DuplicateClaim(first, second) ==
    /\ FolderIdentity(first.info) = FolderIdentity(second.info)
    /\ ClaimedTask(first).kind \in {"int", "digits"}
    /\ ClaimedTask(second).kind \in {"int", "digits"}
    /\ ClaimedTask(first).val = ClaimedTask(second).val

\* C13: in whatever order the folders are processed, a second folder that
\* claims a task number already attached for the same identity aborts the
\* run; an attached process submission is never replaced by a later folder.
C13_DuplicateAborts ==
    (run.called /\ \E i, j \in 1..Len(processes_dirs) :
                      i < j /\ DuplicateClaim(processes_dirs[i],
                                              processes_dirs[j]))
        => AssemblyAborted

\* C14: a process folder whose student metadata is empty or cannot be parsed
\* is skipped: no Student is created for it, no submission is attached from
\* it, and the assembly goes on without raising on that folder.
C14_EmptyMetadataSkipped ==
    /\ AssemblyReturned =>
           \A i \in 1..Len(processes_dirs) :
               ~HasMetadata(processes_dirs[i]) =>
                   \A j \in 1..Len(process_students) :
                       /\ ~Holds(process_students[j], processes_dirs[i])
                       /\ StudentIdentity(process_students[j])
                          # FolderIdentity(processes_dirs[i].info)
    /\ AssemblyAborted =>
           \A i \in 1..Len(processes_dirs) :
               ~HasMetadata(processes_dirs[i]) =>
                   run.error.folder # processes_dirs[i].dir_name

\* the distinct identities found across the folders of a track
IdentitiesFound(dirs) == {FolderIdentity(dirs[i].info) : i \in 1..Len(dirs)}

\* C15: from_files returns a board only if, on each track, the number of
\* distinct identities found across the folders equals the number of
\* assembled Students; a mismatch aborts the run with an error.  (The thread
\* track assembles one Student per folder.)
C15_ConsistencyGuard ==
    /\ AssemblyReturned =>
           /\ Cardinality(IdentitiesFound(status_map)) = Len(thread_students)
           /\ Cardinality(IdentitiesFound(processes_dirs))
              = Len(process_students)
    /\ (run.called /\ Cardinality(IdentitiesFound(status_map))
                      # Len(status_map))
           => /\ AssemblyAborted
              /\ run.error.message \in {"Threads track mismatch",
                                        "Invalid task_number",
                                        "task_number out of range",
                                        "No process tasks configured",
                                        "Duplicate process task"}

\* a board is returned for two thread folders of two students and two
\* process folders merged into one Student
C15_Witness ==
    /\ AssemblyReturned
    /\ Len(thread_students) = 2
    /\ Len(processes_dirs) = 2
    /\ Len(process_students) = 1
    /\ Cardinality(DOMAIN process_students[1].process_submissions) = 2

-----------------------------------------------------------------------------
(* The score cache of a Student *)

\* C16: whatever submissions are added or replaced and whenever the score is
\* asked for, calculate_score is called at most once per task name, on the
\* first access, and the cache keeps the value computed then: a submission
\* added or replaced later does not invalidate it.
C16_ScoreComputedOnce ==
    /\ [](task_scores.cached =>
             task_scores.score
             = ThreadTask_calculate_score(thread_task, thread_call.submission))
    /\ [](process_scores.cached =>
             process_scores.score
             = ProcessTask_calculate_score(process_task,
                                           process_call.submission))
    /\ [][/\ task_scores.cached => task_scores' = task_scores
          /\ thread_call.called => thread_call' = thread_call
          /\ process_scores.cached => process_scores' = process_scores
          /\ process_call.called => process_call' = process_call]_vars

\* the score was computed for one submission and the entry then replaced by
\* a submission that scores differently: the cache holds the first score
C16_Witness ==
    /\ task_scores.cached
    /\ thread_submissions # thread_call.submission
    /\ thread_call.submission.present
    /\ task_scores.score
       # ThreadTask_calculate_score(thread_task, thread_submissions)

-----------------------------------------------------------------------------
(* Rows and variants *)

\* what a build shows of a row: the student, the total and the variants
Shows(row) == [name |-> row.name, total |-> row.total, variant |-> row.variant]

\* the process rows of a build that enumerates the folders in the order of
\* dirs, in the order of the rows; no rows when the run aborts
ProcessRowsOf(dirs) ==
    LET built == Scoreboard_build_process_students(process_tasks, dirs)
    IN  IF IsRaised(built) THEN [returned |-> FALSE, shown |-> <<>>]
        ELSE [returned |-> TRUE,
              shown |-> [i \in 1..Len(built.students) |->
                            Shows(ProcessesRow(board, process_tasks,
                                               built.students[i]))]]

\* the folders of processes_dirs in every order of enumeration
Enumerations ==
    {[i \in 1..Len(processes_dirs) |-> processes_dirs[p[i]]] :
        p \in Permutations(1..Len(processes_dirs))}

\* C17: a second build from the same inputs yields, for every student, the
\* same row total and the same variants, the rows in the same order, in
\* whatever order the folders are enumerated.
C17_BuildIsDeterministic ==
    (AssemblyReturned /\ process_rows # <<>>) =>
        \A dirs \in Enumerations :
            ProcessRowsOf(dirs)
            = [returned |-> TRUE,
               shown |-> [i \in 1..Len(process_rows) |->
                             Shows(process_rows[i])]]

\* the variant is the marker when the hash raises for the salt, a number of
\* 1..variants_max otherwise
Rendered(variant, salt, variants_max) ==
    IF salt \in hash_raises THEN variant = UnknownVariant
    ELSE variant.known /\ variant.number \in 1..variants_max

\* C18: a variant hash that raises for a student is not propagated:
\* thread_variant gives the marker "?", process_variants gives "?" for the
\* failing assignment only and renders the others, and the rows are built
\* with the student's scores and total as they are without the failure.
C18_HashFailureIsLocal ==
    /\ \A i \in 1..Len(rows) :
          /\ Rendered(rows[i].variant, Repo(board.repo_salt, 0),
                      board.variants_max)
          /\ rows[i].total
             = Round2(TaskScore_total(rows[i].cells["seq"])
                      + TaskScore_total(rows[i].cells["omp"]))
          /\ rows[i].cells["omp"]
             = ThreadTask_calculate_score(
                   board.thread_tasks[2],
                   thread_students[i].thread_submissions["omp"])
    /\ \A i \in 1..Len(process_rows) :
          /\ Len(process_rows[i].variant) = Len(process_tasks)
          /\ \A idx \in 1..Len(process_tasks) :
                /\ Rendered(process_rows[i].variant[idx],
                            Repo(board.repo_salt, idx),
                            process_tasks[idx].variants_max)
                /\ ProcessScore(process_rows[i].groups[2 * idx - 1],
                                process_rows[i].groups[2 * idx],
                                process_rows[i].r_values[idx])
                   = ProcessTask_calculate_score(
                         process_tasks[idx],
                         IF process_tasks[idx].name
                            \in DOMAIN process_students[i].process_submissions
                         THEN process_students[i].process_submissions[
                                  process_tasks[idx].name]
                         ELSE NoSubmission)
          /\ process_rows[i].total
             = Round2(ProcessScore_total(
                          ProcessScore(process_rows[i].groups[1],
                                       process_rows[i].groups[2],
                                       process_rows[i].r_values[1]))
                      + ProcessScore_total(
                            ProcessScore(process_rows[i].groups[3],
                                         process_rows[i].groups[4],
                                         process_rows[i].r_values[2])))

\* the hash raises for process task 2 only: the row of a student with a
\* scored submission shows the variant of task 1 and the marker for task 2
C18_Witness ==
    /\ hash_raises = {Repo("salt", 2)}
    /\ Len(process_rows) > 0
    /\ process_rows[1].variant[1].known
    /\ process_rows[1].variant[2] = UnknownVariant
    /\ process_rows[1].total > 0

\* the facts of a thread submission that leave the speed-up undefined
NoSpeedup(submission) ==
    \/ submission.perf_time.kind # "num" \/ submission.seq_time.kind # "num"
    \/ submission.perf_time.val <= 0 \/ submission.seq_time.val <= 0

\* C19: scoring is total.  Whatever facts the submission record holds
\* (no status, times that are None, sentinel or other text, or not
\* positive, no due instant, no commit time, no report, no work directory,
\* no submission at all), score_thread and score_process return a score and
\* cache it, never raising, and the rows are built with a score in every
\* cell; missing times give 0 performance points and the placeholder.
C19_ScoringIsTotal ==
    /\ thread_call.called =>
          /\ task_scores.cached
          /\ ~IsRaised(task_scores.score)
          /\ (thread_call.submission.present
              /\ NoSpeedup(thread_call.submission)) =>
                 /\ task_scores.score.performance_points = 0
                 /\ task_scores.score.performance_display = Placeholder
    /\ process_call.called =>
          /\ process_scores.cached
          /\ ~IsRaised(process_scores.score)
    /\ \A i \in 1..Len(rows) :
          \A name \in DOMAIN rows[i].cells : ~IsRaised(rows[i].cells[name])

\* a submission with no status and a time that is not a number was scored
C19_Witness ==
    /\ thread_call.called
    /\ thread_call.submission.present
    /\ thread_call.submission.status = None
    /\ thread_call.submission.perf_time = TimeVal("text", 0)
    /\ ~thread_call.submission.impl_path.commit.known
    /\ thread_task.name = "omp"
    /\ task_scores.cached
    /\ TaskScore_total(task_scores.score) = 0

\* the thread submission scored, were its status "done"
ThreadAsDone ==
    ThreadTask_calculate_score(
        thread_task, [thread_call.submission EXCEPT !.status = "done"])

ThreadDisabledScored ==
    /\ thread_call.called
    /\ thread_call.submission.present
    /\ thread_call.submission.status = "disabled"
    /\ task_scores.cached

ProcessSubmissionScored ==
    /\ process_call.called
    /\ process_call.submission.present
    /\ process_scores.cached

\* C20 as stated: a disabled submission has the muted solution class, an
\* empty plagiarism class whatever the copy flag, and the solution points
\* and copy penalty of the same submission with status done.
C20_DisabledSuppressesCopyClass ==
    /\ ThreadDisabledScored =>
          /\ task_scores.score.solution_class = "cell-muted"
          /\ task_scores.score.copy_class = ""
          /\ task_scores.score.solution_points = ThreadAsDone.solution_points
          /\ task_scores.score.copy_penalty = ThreadAsDone.copy_penalty
    /\ (ProcessSubmissionScored /\ process_call.submission.seq_status = "disabled") =>
          process_scores.score.seq.copy_class = ""
    /\ (ProcessSubmissionScored /\ process_call.submission.mpi_status = "disabled") =>
          process_scores.score.mpi.copy_class = ""

\* C20, amended: a disabled submission has the muted solution class (done
\* has the success class), its plagiarism class is the warning class
\* whatever the copy flag, and its solution points and copy penalty are
\* those of the same submission with status done.
C20_DisabledShowsWarning ==
    /\ ThreadDisabledScored =>
          /\ task_scores.score.solution_class = "cell-muted"
          /\ ThreadAsDone.solution_class = "cell-success"
          /\ task_scores.score.copy_class = "cell-warning"
          /\ task_scores.score.solution_points = ThreadAsDone.solution_points
          /\ task_scores.score.copy_penalty = ThreadAsDone.copy_penalty
    /\ (ProcessSubmissionScored /\ process_call.submission.seq_status = "disabled") =>
          LET done == ProcessTask_calculate_score(
                          process_task,
                          [process_call.submission EXCEPT
                              !.seq_status = "done"]).seq
              seq == process_scores.score.seq
          IN  /\ seq.solution_class = "cell-muted"
              /\ done.solution_class = "cell-success"
              /\ seq.copy_class = "cell-warning"
              /\ seq.solution_points = done.solution_points
              /\ seq.copy_penalty = done.copy_penalty
    /\ (ProcessSubmissionScored /\ process_call.submission.mpi_status = "disabled") =>
          LET done == ProcessTask_calculate_score(
                          process_task,
                          [process_call.submission EXCEPT
                              !.mpi_status = "done"]).mpi
              mpi == process_scores.score.mpi
          IN  /\ mpi.solution_class = "cell-muted"
              /\ done.solution_class = "cell-success"
              /\ mpi.copy_class = "cell-warning"
              /\ mpi.solution_points = done.solution_points
              /\ mpi.copy_penalty = done.copy_penalty

\* a disabled submission that is not flagged as copied, with points at
\* stake, was scored: its plagiarism class is the warning class
C20_Witness ==
    /\ ThreadDisabledScored
    /\ ~thread_call.submission.copied
    /\ task_scores.score.solution_points > 0
    /\ task_scores.score.copy_class = "cell-warning"
    /\ task_scores.score.copy_penalty = 0

\* the performance part of a cell is all placeholder and worth nothing
NoPerformance(score) ==
    /\ score.performance_points = 0
    /\ score.performance_display = Placeholder
    /\ score.acceleration = Placeholder
    /\ score.efficiency = Placeholder

\* the performance part of a cell shows numbers, the display the points
NumericPerformance(score) ==
    /\ score.performance_display = Format2(score.performance_points)
    /\ score.acceleration.shown
    /\ score.efficiency.shown

\* C21: when the parallel time or the seq reference time is None, an empty
\* or sentinel string, other text, or not positive, the efficiency is
\* undefined: 0 performance points and the placeholder for acceleration,
\* efficiency and the performance display; when both times are valid the
\* performance display is the number of points, 0.00 included.  Checked for
\* the non-seq ThreadTask and for the mpi half of the ProcessTask.
C21_InvalidTimeNoPerformance ==
    /\ (ThreadScored /\ TSub.present /\ thread_task.name # "seq") =>
          IF ValidTime(TSub.perf_time) /\ ValidTime(TSub.seq_time)
          THEN NumericPerformance(TScore)
          ELSE NoPerformance(TScore)
    /\ (ProcessScored /\ PSub.present) =>
          IF ValidTime(PSub.mpi_time) /\ ValidTime(PSub.seq_time)
          THEN NumericPerformance(PScore.mpi)
          ELSE NoPerformance(PScore.mpi)

\* both times valid and the efficiency under every threshold: the display
\* is the number 0.00, not the placeholder
C21_Witness ==
    /\ ThreadScored /\ TSub.present
    /\ thread_task.name = "omp"
    /\ thread_task.a_points = 10
    /\ thread_task.efficiency_scale = ExampleScale
    /\ TSub.perf_time = Seconds(16) /\ TSub.seq_time = Seconds(8)
    /\ TScore.performance_points = 0
    /\ TScore.performance_display = Shown(0)

-----------------------------------------------------------------------------
(* The efficiency scale *)

\* thresholds strictly descending and percents non-increasing, in scan order
DescendingScale(scale) ==
    \A i, j \in 1..Len(scale) :
        i < j => /\ scale[i].threshold > scale[j].threshold
                 /\ scale[i].pct >= scale[j].pct

\* the largest percent of the scale, 0 for a scale with no pair
LargestPercent(scale) ==
    IF scale = <<>> THEN 0
    ELSE CHOOSE p \in {scale[i].pct : i \in 1..Len(scale)} :
             \A i \in 1..Len(scale) : scale[i].pct <= p

\* e1 <= e2, for two defined efficiencies
EffLeq(e1, e2) == e1.num * e2.den <= e2.num * e1.den

\* the points asked so far do not decrease with the efficiency
MonotonePoints ==
    \A a, b \in points_of :
        (a.eff.defined /\ b.eff.defined /\ EffLeq(a.eff, b.eff))
            => a.points <= b.points

\* C22 as stated: for a scale with strictly descending thresholds and
\* non-increasing percents, the points do not decrease with the efficiency,
\* and never exceed budget x the largest percent.
C22_MonotoneUnderExactBound ==
    (board_scale.parsed /\ DescendingScale(board_scale.pairs)) =>
        /\ MonotonePoints
        /\ \A a \in points_of :
               a.points <= perf_budget * LargestPercent(board_scale.pairs)

\* C22, amended: for a scale with strictly descending thresholds and
\* non-increasing percents, none of them negative, and a non-negative
\* budget, the points do not decrease with the efficiency, are never
\* negative and never exceed budget x the largest percent rounded to 2
\* decimals.
C22_MonotoneStepFunction ==
    (/\ board_scale.parsed
     /\ DescendingScale(board_scale.pairs)
     /\ \A i \in 1..Len(board_scale.pairs) : board_scale.pairs[i].pct >= 0
     /\ perf_budget >= 0) =>
        /\ MonotonePoints
        /\ \A a \in points_of :
               /\ a.points >= 0
               /\ a.points
                  <= Round2(perf_budget * LargestPercent(board_scale.pairs))

\* a scale of two steps, asked under, between and over its thresholds: the
\* points climb 0, 2.5, 5
C22_Witness ==
    /\ board_scale = Parsed(<<Pair(500, 1000), Pair(250, 500)>>)
    /\ perf_budget = 5
    /\ [eff |-> Efficiency(1, 8), points |-> 0] \in points_of
    /\ [eff |-> Efficiency(3, 8), points |-> 2500] \in points_of
    /\ [eff |-> Efficiency(6, 8), points |-> 5000] \in points_of

-----------------------------------------------------------------------------
(* The seq task *)

\* C23: the ThreadTask named "seq" never earns performance points: whatever
\* times the submission records, its performance points are 0 and its
\* performance, acceleration and efficiency displays the placeholder, in
\* the score of the student and in the seq cell of every row.
C23_SeqEarnsNoPerformance ==
    /\ (ThreadScored /\ thread_task.name = "seq") => NoPerformance(TScore)
    /\ \A i \in 1..Len(rows) :
          "seq" \in DOMAIN rows[i].cells => NoPerformance(rows[i].cells["seq"])

\* a seq submission with two valid times and a performance budget of 10,
\* for which any other task earns the whole budget
C23_Witness ==
    /\ ThreadScored /\ TSub.present
    /\ thread_task.name = "seq"
    /\ thread_task.a_points = 10
    /\ thread_task.efficiency_scale = ExampleScale
    /\ TSub.perf_time = Seconds(2) /\ TSub.seq_time = Seconds(8)
    /\ TSub.status = "done"
    /\ Task_efficiency_to_points(
           thread_task,
           Task_performance_metrics(thread_task, TSub.perf_time,
                                    TSub.seq_time).eff_value,
           thread_task.a_points) = 10000
    /\ TScore.performance_points = 0

-----------------------------------------------------------------------------
(* Deadlines *)

\* d is i x total / n rounded to a nearest integer
NearestStep(d, i, total, n) == 2 * Abs(n * d - i * total) <= n

\* C24: for a window with start <= end, the scheduler returns the single
\* date end when the task count N <= 1, and for N >= 2 returns N base
\* dates, the i-th being start + round(i x (end - start) / N) days; the
\* base dates are non-decreasing, lie in [start, end], and the last is end.
C24_EvenlySpacedDates ==
    (deadlines.computed /\ deadlines.window.start <= deadlines.window.end) =>
        LET n == Len(deadline_shifts.names)
            start == deadlines.window.start
            end == deadlines.window.end
            base_dates == deadlines.base_dates
        IN  IF n <= 1 THEN base_dates = <<end>>
            ELSE /\ Len(base_dates) = n
                 /\ \A i \in 1..n :
                       /\ NearestStep(base_dates[i] - start, i, end - start, n)
                       /\ start <= base_dates[i] /\ base_dates[i] <= end
                       /\ i > 1 => base_dates[i - 1] <= base_dates[i]
                 /\ base_dates[n] = end

\* four thread tasks in the default window of a year that is not a leap
\* year, 1 February to 15 May (103 days): 27 February, 25 March, 19 April
\* and 15 May
C24_Witness ==
    /\ deadlines.computed
    /\ deadlines.track = "threads"
    /\ ~deadline_shifts.leap
    /\ deadline_shifts.threads_base = EmptyDict
    /\ Len(deadline_shifts.names) = 4
    /\ deadlines.window = [start |-> 32, end |-> 135]
    /\ deadlines.base_dates = <<58, 84, 109, 135>>

\* the override deadlines.json holds for the task a deadline was built for,
\* and the base date of that task
OverrideOf(key) ==
    IF deadlines.track = "threads"
    THEN dict_get(deadline_shifts.threads, key, IntShift(0))
    ELSE IF task_key(key) \in DOMAIN deadline_shifts.processes
         THEN deadline_shifts.processes[task_key(key)]
         ELSE dict_get(deadline_shifts.processes, mpi_task_key(key),
                       IntShift(0))

BaseDateOf(key) ==
    IF deadlines.track = "threads"
    THEN deadlines.base_dates[CHOOSE i \in 1..Len(deadline_shifts.names) :
                                  deadline_shifts.names[i] = key]
    ELSE deadlines.base_dates[key]

\* the label is "<day> <abbreviated month>" of day d of the year, of the
\* December before it or of the January after it
LabelsDate(label, d) ==
    /\ label.kind = "date"
    /\ \E m \in 1..12 :
          /\ month_abbr[m] = label.text
          /\ label.day \in 1..MonthLengths(deadline_shifts.leap)[m]
          /\ \/ d = date(deadline_shifts.leap, m, label.day)
             \/ m = 12 /\ d = label.day - 31
             \/ m = 1 /\ d = YearLength(deadline_shifts.leap) + label.day

\* the tasks of the track all have a deadline
EveryTaskHasDeadline ==
    IF deadlines.track = "threads"
    THEN DOMAIN deadlines.result
         = {deadline_shifts.names[i] : i \in 1..Len(deadline_shifts.names)}
    ELSE 1..Len(deadline_shifts.names) \subseteq DOMAIN deadlines.result

\* C25: for every task, an integer override s gives the due instant
\* (base date + s days) at 23:59:00 and the label "<day> <abbreviated
\* month>" of the shifted date; an override that is not an integer gives a
\* null due instant and its text as the label; a task with a null due
\* instant has deadline penalty 0 for every submission.
C25_ShiftOverrides ==
    /\ deadlines.computed =>
          /\ EveryTaskHasDeadline
          /\ \A key \in DOMAIN deadlines.result :
                LET override == OverrideOf(key)
                    deadline == deadlines.result[key]
                    shifted == BaseDateOf(key) + override.days
                IN  IF override.kind = "int"
                    THEN /\ deadline.due.known
                         /\ deadline.due.at
                            = shifted * SecondsPerDay
                              + 23 * SecondsPerHour + 59 * 60
                         /\ LabelsDate(deadline.label, shifted)
                    ELSE /\ deadline.due = NoInstant
                         /\ deadline.label = TextLabel(override.text)
    /\ (last_penalty.asked
        /\ ~deadlines.result[last_penalty.key].due.known) =>
          last_penalty.penalty = 0

\* the second thread task is given "no deadline" and the first is moved 20
\* days back, out of 27 February to 7 February; a submission of the second
\* task committed in December and done has no penalty
C25_Witness ==
    /\ deadlines.computed
    /\ deadlines.track = "threads"
    /\ ~deadline_shifts.leap
    /\ deadline_shifts.threads_base = EmptyDict
    /\ Len(deadline_shifts.names) = 4
    /\ deadlines.result["seq"]
       = LabelledDeadline(DateLabel(7, "Feb"),
                          Instant(38 * SecondsPerDay + 23 * SecondsPerHour
                                  + 59 * 60))
    /\ deadlines.result["omp"] = LabelledDeadline(TextLabel("no deadline"),
                                                  NoInstant)
    /\ last_penalty.asked
    /\ last_penalty.key = "omp"
    /\ last_penalty.status = "done"
    /\ last_penalty.commit.known
    /\ last_penalty.penalty = 0

-----------------------------------------------------------------------------
(* Bounds of a total *)

\* Task.max_points of a ThreadTask and of a ProcessTask, in thousandths
ThreadTask_max_points(task) ==
    Points(task.s_points + task.a_points + task.r_points)

ProcessTask_max_points(task) ==
    Points(task.r_points + task.mpi_points.S + task.seq_points.S
           + task.mpi_points.A)

\* budgets not negative, copy coefficient and every percent in [0, 1]
ScaleInUnit(scale) ==
    \A i \in 1..Len(scale) : scale[i].pct >= 0 /\ scale[i].pct <= 1000

WellFormedThreadTask(task) ==
    /\ task.s_points >= 0 /\ task.a_points >= 0 /\ task.r_points >= 0
    /\ task.copy_coeff >= 0 /\ task.copy_coeff <= 1000
    /\ ScaleInUnit(task.efficiency_scale)

WellFormedProcessTask(task) ==
    /\ task.seq_points.S >= 0 /\ task.mpi_points.S >= 0
    /\ task.mpi_points.A >= 0 /\ task.r_points >= 0
    /\ task.copy_coeff >= 0 /\ task.copy_coeff <= 1000
    /\ ScaleInUnit(task.efficiency_scale)

\* C26: for a task with non-negative budgets, a copy coefficient in [0, 1]
\* and every percent of the scale in [0, 1], every score has
\* 0 <= total <= task.max_points: a ThreadTask total is at most S + A + R,
\* a ProcessScore total at most seq S + mpi S + mpi A + R, and neither is
\* negative.
C26_TotalWithinBudget ==
    /\ (ThreadScored /\ WellFormedThreadTask(thread_task)) =>
          /\ 0 <= TaskScore_total(TScore)
          /\ TaskScore_total(TScore) <= ThreadTask_max_points(thread_task)
    /\ (ProcessScored /\ WellFormedProcessTask(process_task)) =>
          /\ 0 <= ProcessScore_total(PScore)
          /\ ProcessScore_total(PScore) <= ProcessTask_max_points(process_task)
          /\ 0 <= TaskScore_total(PScore.seq)
          /\ 0 <= TaskScore_total(PScore.mpi)

\* the whole budget is earned: S = 20, A = 10, R = 5, total 35
C26_Witness ==
    /\ ThreadScored /\ TSub.present
    /\ WellFormedThreadTask(thread_task)
    /\ thread_task.s_points = 20 /\ thread_task.a_points = 10
    /\ thread_task.r_points = 5
    /\ TaskScore_total(TScore) = 35000
    /\ ThreadTask_max_points(thread_task) = 35000

-----------------------------------------------------------------------------
(* Assembly of the thread track *)

\* two thread folders resolve to the same identity key
SharedThreadIdentity ==
    \E i, j \in 1..Len(status_map) :
        /\ i < j
        /\ Scoreboard_identity_key(status_map[i].info)
           = Scoreboard_identity_key(status_map[j].info)

\* the process track is assembled without an error of its own
ProcessTrackBuilt ==
    ~IsRaised(Scoreboard_build_process_students(process_tasks,
                                                 processes_dirs))

\* C27: on the thread track every folder gives exactly one Student, nothing
\* is merged, and from_files returns only when the thread folders have
\* pairwise distinct identity keys: two folders with the same key, two
\* folders without student metadata included, make the consistency guard
\* abort the run.
C27_ThreadFoldersDistinct ==
    /\ AssemblyReturned =>
          /\ Len(thread_students) = Len(status_map)
          /\ \A i \in 1..Len(status_map) :
                LET built == ThreadStudentOf(board, status_map[i])
                IN  /\ StudentIdentity(thread_students[i])
                       = StudentIdentity(built)
                    /\ thread_students[i].thread_submissions
                       = built.thread_submissions
          /\ ~SharedThreadIdentity
    /\ (run.called /\ SharedThreadIdentity) =>
          /\ AssemblyAborted
          /\ ProcessTrackBuilt => run.error.message = "Threads track mismatch"

\* two thread folders without student metadata, the process track in
\* order: the guard aborts the run
C27_Witness ==
    /\ status_map = <<AssemblyFolderWithout, AssemblyFolderWithout>>
    /\ ProcessTrackBuilt
    /\ Len(processes_dirs) > 0
    /\ AssemblyAborted
    /\ run.error.message = "Threads track mismatch"

-----------------------------------------------------------------------------
(* Identity keys of the process track *)

\* the key _build_process_students looks the folder's Student up under, and
\* the key it stores a Student made of the folder under
LookupKey(folder) == Scoreboard_identity_key(folder.info)
StoreKey(folder) == Student_identity_key(Student(folder.info))

\* C28: on the process track, when the assembly completes without a
\* structural error, the number of assembled Students equals the number of
\* distinct identity keys _collect_identities derives from the same folders,
\* whatever the identity fields are (missing and null ones included), and
\* the key a Student is looked up under agrees with the key it is stored
\* under.
C28_LookupAndStoreKeysAgree ==
    AssemblyReturned =>
        /\ Len(process_students)
           = Cardinality(Scoreboard_collect_identities(processes_dirs))
        /\ \A i \in 1..Len(processes_dirs) :
              LookupKey(processes_dirs[i]) = StoreKey(processes_dirs[i])

-----------------------------------------------------------------------------
(* Process submissions and the tasks that score them *)

\* the score the k-th configured process task gives the submission
ScoreOfConfigured(k, submission) ==
    ProcessTask_calculate_score(process_tasks[k], submission)

\* C29: a process submission attached for the validated task_number k is the
\* one scored by the k-th configured ProcessTask: in the student's process
\* row the k-th seq/mpi pair of cells and the k-th report value are computed
\* from that submission, whatever names the process tasks are configured
\* with.
C29_AttachedIsScoredByKth ==
    (AssemblyReturned /\ process_rows # <<>>) =>
        \A i \in 1..Len(process_students) :
            \A n \in DOMAIN process_students[i].process_submissions :
                LET submission == process_students[i].process_submissions[n]
                    k == submission.task_number
                    score == ScoreOfConfigured(k, submission)
                IN  /\ process_rows[i].groups[2 * k - 1] = score.seq
                    /\ process_rows[i].groups[2 * k] = score.mpi
                    /\ process_rows[i].r_values[k] = score.report_points

-----------------------------------------------------------------------------
(* The two generations of the thread track *)

\* both row builders have run over the folders, without an error
BothBuilt ==
    /\ rows # <<>>
    /\ legacy_rows.built
    /\ ~legacy_rows.raised

\* the cell of the task in the i-th row of the board and of the entry point
BoardCell(i, n) == rows[i].cells[n]
EntryPointCell(i, n) == legacy_rows.made[i].cells[n]

\* C30: with the configured efficiency scale equal to the built-in one, and
\* the same folder, statuses, benchmark times, copying list and points
\* configuration, builder.build_threads_rows and
\* Scoreboard.build_threads_rows give every task cell the same solution
\* points, performance points and copy penalty, and the row the same total.
C30_GenerationsAgree ==
    BothBuilt =>
        \A i \in 1..Len(rows) :
            /\ \A n \in DOMAIN rows[i].cells :
                  /\ EntryPointCell(i, n).solution_points
                     = BoardCell(i, n).solution_points
                  /\ EntryPointCell(i, n).performance_points
                     = BoardCell(i, n).performance_display
                  /\ EntryPointCell(i, n).copy_penalty
                     = BoardCell(i, n).copy_penalty
            /\ legacy_rows.made[i].total = rows[i].total

====
